---- MODULE Spec2Model ----
(***************************************************************************)
(* Model of the notification pipeline of nutrition_agent.py: trigger       *)
(* resolution, candidate filtering, ranking, message composition and the   *)
(* per-user recency state with its rate limits.                            *)
(*                                                                         *)
(* Reading of the source.  The functions of nutrition_agent.py lines       *)
(* 106-656 take `self` and are called by every caller as methods of        *)
(* NutritionAgent (agent.generate_notifications, agent.resolve_triggers,   *)
(* agent._check_diet_compatibility); the model takes them as such.  As the *)
(* file is indented, line 106 closes the class body, so the class itself   *)
(* binds only __init__ and load_data.                                      *)
(*                                                                         *)
(* Time.  An instant is a number of seconds since 00:00 UTC of day 0.  A   *)
(* datetime value is a record [t |-> instant, off |-> utc offset in s].    *)
(* Zones are modelled by their fixed offset (zones without DST).           *)
(* Amounts and link weights are integers in tenths; scores are integers in *)
(* thousandths (floor).                                                    *)
(***************************************************************************)
EXTENDS Integers, Sequences, FiniteSets, TLC

(***************************************************************************)
(* Bounds of the model                                                     *)
(***************************************************************************)
\* days from which the timestamp of a call is drawn: 1..MaxDay
MaxDay == 2
\* number of link-less conditions in the profile of the user "u004"
ManyConds == 21
\* number of POST /generate requests in flight
MaxRequests == 2
\* number of conditions in a profile whose condition match is computed alone
MaxProfile == 2

(***************************************************************************)
(* Program constants                                                       *)
(***************************************************************************)
DAY == 86400
HOUR == 3600
\* rate limits
DailyCap == 2
MinGapSecs == 10800
MaxRecent == 20
\* trigger windows
PreMealLeadSecs == 1800
PreMealToleranceSecs == 300
PostActivitySecs == 7200
\* message length
MaxMessageLen == 160
KeptLen == 157

(***************************************************************************)
(* Small helpers on sequences and sets                                     *)
(***************************************************************************)
Range(s) == {s[i] : i \in DOMAIN s}

\* a local variable: value is computed once and Body works on the result
With(value, Body(_)) == CHOOSE r \in {Body(x) : x \in {value}} : TRUE

\* a for loop: the value of acc after acc = Step(i, acc) for i = first, ...,
\* last in this order; the range is halved so that the evaluation of a long
\* loop does not nest deeply
FoldRange(Step(_, _), initial, first, last_index) ==
    LET RECURSIVE Go(_, _, _)
        Go(acc, lo, hi) ==
            IF lo > hi THEN acc
            ELSE IF lo = hi THEN Step(lo, acc)
            ELSE With((lo + hi) \div 2, LAMBDA mid :
                 With(Go(acc, lo, mid), LAMBDA half : Go(half, mid + 1, hi)))
    IN  Go(initial, first, last_index)

RECURSIVE SelectSeqIdx(_, _, _)
\* the subsequence of s of the elements whose index i satisfies keep[i]
SelectSeqIdx(s, keep, i) ==
    IF i > Len(s) THEN <<>>
    ELSE (IF keep[i] THEN <<s[i]>> ELSE <<>>) \o SelectSeqIdx(s, keep, i + 1)

\* Python's s[-n:] for n > 0
LastN(s, n) ==
    IF Len(s) <= n THEN s ELSE SubSeq(s, Len(s) - n + 1, Len(s))

Abs(x) == IF x < 0 THEN -x ELSE x

(***************************************************************************)
(* Strings that the code transforms are sequences of characters            *)
(***************************************************************************)
UpperToLower ==
    ("A" :> "a") @@ ("B" :> "b") @@ ("C" :> "c") @@ ("D" :> "d")
    @@ ("E" :> "e") @@ ("F" :> "f") @@ ("G" :> "g") @@ ("H" :> "h")
    @@ ("I" :> "i") @@ ("J" :> "j") @@ ("K" :> "k") @@ ("L" :> "l")
    @@ ("M" :> "m") @@ ("N" :> "n") @@ ("O" :> "o") @@ ("P" :> "p")
    @@ ("Q" :> "q") @@ ("R" :> "r") @@ ("S" :> "s") @@ ("T" :> "t")
    @@ ("U" :> "u") @@ ("V" :> "v") @@ ("W" :> "w") @@ ("X" :> "x")
    @@ ("Y" :> "y") @@ ("Z" :> "z")

\* str.lower()
Lower(s) == [i \in DOMAIN s |-> IF s[i] \in DOMAIN UpperToLower
                                 THEN UpperToLower[s[i]] ELSE s[i]]

\* str.replace(" ", "_")
ReplaceSpace(s) == [i \in DOMAIN s |-> IF s[i] = " " THEN "_" ELSE s[i]]

GlowingSkin == <<"G","l","o","w","i","n","g"," ","s","k","i","n">>
HairFall == <<"H","a","i","r"," ","f","a","l","l">>
EnergyBoost == <<"E","n","e","r","g","y"," ","b","o","o","s","t">>
Immunity == <<"I","m","m","u","n","i","t","y">>
\* a condition whose link rows all carry the weight 0.0
Detox == <<"D","e","t","o","x">>

Letters ==
    <<"a","b","c","d","e","f","g","h","i","j","k","l","m",
      "n","o","p","q","r","s","t","u","v","w","x","y","z">>

\* a condition label without any link row: "Ka", "Kb", ...
ExtraCond(i) == <<"K", Letters[i]>>

(***************************************************************************)
(* Loaded data (load_data): users, foods, links, activity log, templates   *)
(***************************************************************************)
\* pytz.timezone(name).utcoffset for the zones of the user table
TzOffset ==
    [Asia_Kolkata |-> 19800, America_Bogota |-> -18000, Asia_Tokyo |-> 32400]

\* a meal time "HH:MM" is the sequence of its four digits
Users ==
    [u001 |-> [user_id |-> "u001", diet_pref |-> "veg",
               allergies |-> <<"nuts">>, tz |-> "Asia_Kolkata",
               usual_meal_times |-> << <<"breakfast", <<0,8,3,0>> >>,
                                       <<"lunch", <<1,3,0,0>> >>,
                                       <<"dinner", <<2,0,0,0>> >> >>,
               conditions |-> <<GlowingSkin>>],
     u002 |-> [user_id |-> "u002", diet_pref |-> "egg",
               allergies |-> <<"dairy">>, tz |-> "America_Bogota",
               usual_meal_times |-> << <<"breakfast", <<0,9,0,0>> >>,
                                       <<"snack", <<1,6,3,0>> >> >>,
               conditions |-> <<HairFall, EnergyBoost>>],
     u003 |-> [user_id |-> "u003", diet_pref |-> "nonveg",
               allergies |-> <<"shellfish", "gluten">>, tz |-> "Asia_Tokyo",
               usual_meal_times |-> << <<"lunch", <<1,2,3,0>> >> >>,
               conditions |-> <<EnergyBoost, GlowingSkin, HairFall>>],
     u004 |-> [user_id |-> "u004", diet_pref |-> "veg",
               allergies |-> <<"nuts", "dairy">>, tz |-> "Asia_Kolkata",
               usual_meal_times |-> <<>>,
               conditions |-> <<HairFall>> \o [i \in 1..ManyConds |-> ExtraCond(i)]],
     u005 |-> [user_id |-> "u005", diet_pref |-> "nonveg",
               allergies |-> <<>>, tz |-> "Asia_Kolkata",
               usual_meal_times |-> << <<"dinner", <<1,9,3,0>> >> >>,
               conditions |-> <<>>],
     u006 |-> [user_id |-> "u006", diet_pref |-> "veg",
               allergies |-> <<"nuts", "spinach">>, tz |-> "Asia_Kolkata",
               usual_meal_times |-> <<>>,
               conditions |-> <<Immunity>>]]

UserIds == DOMAIN Users

\* identifiers passed to generate_notifications: loaded ones and one that is
\* not loaded; "u006" is called through the service
CallerIds == (UserIds \ {"u006"}) \cup {"u999"}

\* the catalog in iteration order; amounts in tenths
FoodList ==
    << [food_id |-> "f001", name |-> <<"S","o","a","k","e","d"," ","A","l","m","o","n","d","s">>,
        is_veg |-> TRUE,
        ingredients |-> <<"almonds">>, tags |-> <<"nuts", "protein">>,
        nutrients |-> [protein |-> 6, vitamin_e |-> 7, zinc |-> 1]],
       [food_id |-> "f002", name |-> <<"G","r","e","e","k"," ","Y","o","g","u","r","t">>,
        is_veg |-> TRUE,
        ingredients |-> <<"milk", "dairy">>, tags |-> <<"probiotic">>,
        nutrients |-> [protein |-> 10, biotin |-> 2]],
       [food_id |-> "f003", name |-> <<"S","p","i","n","a","c","h"," ","S","a","l","a","d">>,
        is_veg |-> TRUE,
        ingredients |-> <<"spinach", "tomatoes">>, tags |-> <<"leafy_greens">>,
        nutrients |-> [iron |-> 3, vitamin_c |-> 4, fiber |-> 2]],
       [food_id |-> "f004", name |-> <<"G","r","i","l","l","e","d"," ","C","h","i","c","k","e","n"," ","B",
          "r","e","a","s","t">>,
        is_veg |-> FALSE,
        ingredients |-> <<"chicken breast">>, tags |-> <<"lean_protein">>,
        nutrients |-> [protein |-> 31, vitamin_b12 |-> 3, iron |-> 1]],
       [food_id |-> "f006", name |-> <<"B","a","n","a","n","a">>,
        is_veg |-> TRUE,
        ingredients |-> <<"banana">>, tags |-> <<"fruit">>,
        nutrients |-> [potassium |-> 30]],
       [food_id |-> "f008", name |-> <<"A","v","o","c","a","d","o">>,
        is_veg |-> TRUE,
        ingredients |-> <<"avocado">>, tags |-> <<"healthy_fats">>,
        nutrients |-> [fiber |-> 10, vitamin_e |-> 2, zinc |-> 0]],
       [food_id |-> "f009", name |-> <<"L","e","n","t","i","l"," ","D","a","l">>,
        is_veg |-> TRUE,
        ingredients |-> <<"lentils", "spices">>, tags |-> <<"legumes">>,
        nutrients |-> [iron |-> 3, fiber |-> 8, folate |-> 18]],
       [food_id |-> "f010", name |-> <<"E","g","g","s">>,
        is_veg |-> FALSE,
        ingredients |-> <<"eggs">>, tags |-> <<"complete_protein">>,
        nutrients |-> [protein |-> 13, biotin |-> 10, vitamin_b12 |-> 1]],
       [food_id |-> "f014", name |-> <<"G","a","r","l","i","c"," ","P","r","a","w","n","s">>,
        is_veg |-> FALSE,
        ingredients |-> <<"prawns">>, tags |-> <<"shellfish", "lean_protein">>,
        nutrients |-> [protein |-> 20, zinc |-> 9, iron |-> 9]],
       [food_id |-> "f015", name |-> <<"G","r","i","l","l","e","d"," ","C","h","i","c","k","e","n"," ",
            "B","r","e","a","s","t"," ","w","i","t","h"," ","S","t","e","a",
            "m","e","d"," ","B","r","o","w","n"," ","R","i","c","e">>,
        is_veg |-> FALSE,
        ingredients |-> <<"chicken", "rice">>, tags |-> <<"lean_protein">>,
        nutrients |-> [protein |-> 13, biotin |-> 12, vitamin_b12 |-> 1]] >>

FoodIds == {FoodList[i].food_id : i \in DOMAIN FoodList}

\* self.foods[food_id]
FoodById(fid) == CHOOSE f \in Range(FoodList) : f.food_id = fid

\* food.nutrients.get(n, 0)
Amount(food, n) == IF n \in DOMAIN food.nutrients THEN food.nutrients[n] ELSE 0

\* rows of condition_nutrients.csv in file order; weights in tenths
ConditionNutrients ==
    << [condition |-> GlowingSkin, nutrient |-> "vitamin_e", weight |-> 9],
       [condition |-> GlowingSkin, nutrient |-> "zinc", weight |-> 8],
       [condition |-> GlowingSkin, nutrient |-> "vitamin_c", weight |-> 7],
       [condition |-> HairFall, nutrient |-> "biotin", weight |-> 9],
       [condition |-> HairFall, nutrient |-> "iron", weight |-> 8],
       [condition |-> HairFall, nutrient |-> "protein", weight |-> 7],
       [condition |-> HairFall, nutrient |-> "zinc", weight |-> 6],
       [condition |-> EnergyBoost, nutrient |-> "iron", weight |-> 9],
       [condition |-> EnergyBoost, nutrient |-> "vitamin_b12", weight |-> 8],
       [condition |-> Immunity, nutrient |-> "vitamin_c", weight |-> 9],
       [condition |-> Immunity, nutrient |-> "zinc", weight |-> 8],
       [condition |-> Immunity, nutrient |-> "vitamin_d", weight |-> 7],
       [condition |-> Detox, nutrient |-> "fiber", weight |-> 0],
       [condition |-> Detox, nutrient |-> "potassium", weight |-> 0] >>

\* rows of user_activity.csv; ts is the naive timestamp of the file, which
\* tz_localize("UTC") reads as a UTC instant
ActivityLogs ==
    << [user_id |-> "u001", ts |-> 1 * DAY + 2 * HOUR, event |-> "consumed", food_id |-> "f003"],
       [user_id |-> "u002", ts |-> 1 * DAY + 14 * HOUR, event |-> "worked_out", food_id |-> "none"],
       [user_id |-> "u003", ts |-> 1 * DAY + 1 * HOUR, event |-> "consumed", food_id |-> "f006"],
       [user_id |-> "u003", ts |-> 1 * DAY + 3 * HOUR, event |-> "skipped", food_id |-> "f004"],
       [user_id |-> "u005", ts |-> 2 * DAY + 13 * HOUR, event |-> "worked_out", food_id |-> "none"] >>

TemplateIds == {"pre_meal_basic", "post_workout", "science_fact", "condition_reminder"}

\* the template tables a data directory may hold: the full one of the
\* generator and one that lacks the reminder template
TemplateTables == {TemplateIds, TemplateIds \ {"condition_reminder"}}

\* a template text is the sequence of its parts: a literal run of characters
\* or a placeholder "{...}"; a character outside ASCII is written "~"
Lit(s) == [ph |-> "", lit |-> s]

Ph(name) == [ph |-> name, lit |-> <<>>]

\* template['text'] of the templates of the generator
MessageTemplates ==
    [pre_meal_basic |->
        << Ph("food"),
           Lit(<<" ","n","o","w"," ","f","o","r"," ">>),
           Ph("benefit"),
           Lit(<<" ","~","~","~"," ","s","u","p","p","o","r","t","s"," ">>),
           Ph("condition"),
           Lit(<<"."," ","T","r","y"," ">>),
           Ph("cta") >>,
     post_workout |->
        << Lit(<<"P","o","s","t","-","w","o","r","k","o","u","t"," ","f","u",
                  "e","l",":"," ">>),
           Ph("food"),
           Lit(<<" ","p","r","o","v","i","d","e","s"," ">>),
           Ph("benefit"),
           Lit(<<" ","f","o","r"," ">>),
           Ph("condition"),
           Lit(<<"."," ">>),
           Ph("cta"),
           Lit(<<" ","~","~","~","~">>) >>,
     science_fact |->
        << Ph("why_now"),
           Lit(<<" ","~","~","~"," ">>),
           Ph("food"),
           Lit(<<" ","d","e","l","i","v","e","r","s"," ">>),
           Ph("benefit"),
           Lit(<<" ","f","o","r"," ">>),
           Ph("condition"),
           Lit(<<"."," ">>),
           Ph("cta") >>,
     condition_reminder |->
        << Lit(<<"H","a","v","e","n","'","t"," ","f","o","c","u","s","e","d",
                  " ","o","n"," ">>),
           Ph("condition"),
           Lit(<<" ","l","a","t","e","l","y","?"," ">>),
           Ph("food"),
           Lit(<<" ","p","r","o","v","i","d","e","s"," ">>),
           Ph("benefit"),
           Lit(<<"."," ">>),
           Ph("cta") >>]

\* facts.json of the generator, the keys that the composer looks up
Facts ==
    [morning_boost |->
        <<"S","k","i","n"," ","c","e","l","l"," ","t","u","r","n","o","v","e",
          "r"," ","p","e","a","k","s"," ","o","v","e","r","n","i","g","h","t",
          " ","~","~","~"," ","s","u","p","p","o","r","t"," ","w","i","t","h",
          " ","a","n","t","i","o","x","i","d","a","n","t","s">>,
     pre_meal |->
        <<"P","r","e","-","m","e","a","l"," ","p","r","o","t","e","i","n"," ",
          "m","o","d","e","r","a","t","e","s"," ","g","l","y","c","e","m","i",
          "c"," ","r","e","s","p","o","n","s","e"," ","b","y"," ","2","3","%">>,
     post_activity |->
        <<"G","l","y","c","o","g","e","n"," ","r","e","s","y","n","t","h","e",
          "s","i","s"," ","i","s"," ","h","i","g","h","e","s","t"," ","w","i",
          "t","h","i","n"," ","2"," ","h","o","u","r","s"," ","p","o","s","t",
          "-","w","o","r","k","o","u","t">>,
     evening_repair |->
        <<"E","v","e","n","i","n","g"," ","n","u","t","r","i","t","i","o","n",
          " ","s","u","p","p","o","r","t","s"," ","o","v","e","r","n","i","g",
          "h","t"," ","m","u","s","c","l","e"," ","r","e","p","a","i","r">>,
     omega3_benefits |->
        <<"O","m","e","g","a","-","3","s"," ","r","e","d","u","c","e"," ","i",
          "n","f","l","a","m","m","a","t","i","o","n"," ","m","a","r","k","e",
          "r","s"," ","w","i","t","h","i","n"," ","h","o","u","r","s">>]

\* the characters of a key or identifier that the code uses as text
Chars ==
    [evening_repair |-> <<"e","v","e","n","i","n","g","_","r","e","p","a","i","r">>,
     protein |-> <<"p","r","o","t","e","i","n">>,
     vitamin_e |-> <<"v","i","t","a","m","i","n","_","e">>,
     zinc |-> <<"z","i","n","c">>,
     biotin |-> <<"b","i","o","t","i","n">>,
     iron |-> <<"i","r","o","n">>,
     vitamin_c |-> <<"v","i","t","a","m","i","n","_","c">>,
     fiber |-> <<"f","i","b","e","r">>,
     vitamin_b12 |-> <<"v","i","t","a","m","i","n","_","b","1","2">>,
     potassium |-> <<"p","o","t","a","s","s","i","u","m">>,
     folate |-> <<"f","o","l","a","t","e">>]

\* nutrient_names of _generate_benefit_text, for the nutrients of the catalog
NutrientNames ==
    [vitamin_e |-> <<"V","i","t","a","m","i","n"," ","E">>,
     zinc |-> <<"Z","i","n","c">>,
     vitamin_c |-> <<"V","i","t","a","m","i","n"," ","C">>,
     protein |-> <<"p","r","o","t","e","i","n">>,
     iron |-> <<"i","r","o","n">>,
     fiber |-> <<"f","i","b","e","r">>]

\* "Science-backed nutrition timing matters"
GenericFact ==
    <<"S","c","i","e","n","c","e","-","b","a","c","k","e","d"," ","n","u","t",
      "r","i","t","i","o","n"," ","t","i","m","i","n","g"," ","m","a","t","t",
      "e","r","s">>

(***************************************************************************)
(* Datetime arithmetic                                                     *)
(***************************************************************************)
\* the datetimes a caller passes: a time of day (seconds after midnight) on
\* one of the days 1..MaxDay as a UTC datetime, and 03:00 UTC of day 1 as a
\* datetime carrying the offset of Tokyo
TimesOfDay == {7200, 10800, 25200, 34200, 36000, 46800, 82800}

NowValues ==
    {[t |-> d * DAY + s, off |-> 0] : d \in 1..MaxDay, s \in TimesOfDay}
    \cup {[t |-> DAY + 10800, off |-> 32400]}

\* wall-clock seconds of instant t in a zone of offset off
Wall(t, off) == t + off

\* datetime.astimezone(tz).hour
LocalHour(t, off) == (Wall(t, off) % DAY) \div HOUR

\* datetime.isoformat(): the wall-clock reading followed by the offset
IsoFormat(dt) == [wall |-> Wall(dt.t, dt.off), off |-> dt.off]

\* datetime.fromisoformat()
FromIsoFormat(iso) == [t |-> iso.wall - iso.off, off |-> iso.off]

\* now.replace(hour=0, minute=0, second=0, microsecond=0), as an instant:
\* midnight of now's date in the zone now itself carries
TodayStart(now) == now.t - (Wall(now.t, now.off) % DAY)

\* datetime.strptime(meal_time, '%H:%M').time()
ParseHHMM(d) == [hour |-> 10 * d[1] + d[2], minute |-> 10 * d[3] + d[4]]

(***************************************************************************)
(* Trigger resolution                                                      *)
(***************************************************************************)
\* rows of the link table of one condition
LinkRows(condition) ==
    SelectSeq(ConditionNutrients, LAMBDA r : r.condition = condition)

\* set(condition_nutrients['nutrient'].values)
LinkedNutrients(condition) == {r.nutrient : r \in Range(LinkRows(condition))}

_should_remind_condition(user_id, condition, now_t) ==
    LET week_ago == now_t - 7 * DAY
        recent_foods == {a \in Range(ActivityLogs) :
                            /\ a.user_id = user_id
                            /\ a.event = "consumed"
                            /\ a.ts >= week_ago}
        consumed_nutrients ==
            UNION {DOMAIN FoodById(a.food_id).nutrients :
                      a \in {b \in recent_foods : b.food_id \in FoodIds}}
    IN  LinkedNutrients(condition) \cap consumed_nutrients = {}

\* f'condition_{condition.lower().replace(" ", "_")}'
ConditionTrigger(condition) == <<"condition_", ReplaceSpace(Lower(condition))>>

\* the pre-meal triggers, in the order of the meal schedule
PreMealTriggers(user, now_t) ==
    LET off == TzOffset[user.tz]
        w == Wall(now_t, off)
        fires(i) ==
            LET meal_dt == ParseHHMM(user.usual_meal_times[i][2])
                \* user_now.replace(hour=..., minute=...) keeps the seconds
                meal_with_date == (w - (w % DAY)) + meal_dt.hour * HOUR
                                    + meal_dt.minute * 60 + (w % 60)
                pre_meal_time == meal_with_date - PreMealLeadSecs
            IN  Abs(w - pre_meal_time) <= PreMealToleranceSecs
        picked == SelectSeqIdx(user.usual_meal_times,
                               [i \in DOMAIN user.usual_meal_times |-> fires(i)], 1)
    IN  [i \in DOMAIN picked |-> <<"pre_", picked[i][1]>>]

PostActivityTriggers(user, now_t) ==
    IF \E a \in Range(ActivityLogs) :
          /\ a.user_id = user.user_id
          /\ a.event = "worked_out"
          /\ a.ts >= now_t - PostActivitySecs
    THEN << <<"post_activity">> >> ELSE <<>>

ConditionTriggers(user, now_t) ==
    LET picked == SelectSeqIdx(user.conditions,
                    [i \in DOMAIN user.conditions |->
                        _should_remind_condition(user.user_id, user.conditions[i], now_t)], 1)
    IN  [i \in DOMAIN picked |-> ConditionTrigger(picked[i])]

\* variant: the evening window runs to the end of hour 21
InViralWindow_Wide(user, now_t) ==
    LET h == LocalHour(now_t, TzOffset[user.tz]) IN 17 <= h /\ h <= 21

\* the draw random.random() < 0.1 is made only inside the evening window
InViralWindow(user, now_t) ==
    LET h == LocalHour(now_t, TzOffset[user.tz]) IN 17 <= h /\ h <= 20

InQuietHours(user, now_t) ==
    LET h == LocalHour(now_t, TzOffset[user.tz]) IN h >= 22 \/ h <= 7

\* resolve_triggers once the timestamp column has been localized;
\* draw is the outcome of random.random() < 0.1
resolve_triggers(user, now_t, draw) ==
    IF InQuietHours(user, now_t) THEN <<>>
    ELSE PreMealTriggers(user, now_t)
         \o PostActivityTriggers(user, now_t)
         \o ConditionTriggers(user, now_t)
         \o (IF InViralWindow(user, now_t) /\ draw THEN << <<"social_viral">> >> ELSE <<>>)

(***************************************************************************)
(* Candidate filter                                                        *)
(***************************************************************************)
\* variant: the eggetarian branch lets every food pass
_check_diet_compatibility_EggAny(user, food) ==
    IF user.diet_pref = "veg" THEN food.is_veg ELSE TRUE

_check_diet_compatibility(user, food) ==
    IF user.diet_pref = "veg" THEN food.is_veg
    ELSE IF user.diet_pref = "nonveg" THEN TRUE
    ELSE IF user.diet_pref = "egg"
         THEN food.is_veg \/ "eggs" \in Range(food.ingredients)
    ELSE TRUE

\* variant: only the tags of the food are compared with the allergies
_has_allergy_risk_TagsOnly(user, food) ==
    Range(food.tags) \cap Range(user.allergies) # {}

_has_allergy_risk(user, food) ==
    LET food_allergens == Range(food.tags \o food.ingredients)
        user_allergens == Range(user.allergies)
    IN  food_allergens \cap user_allergens # {}

_is_relevant_to_conditions(user, food) ==
    \E i \in DOMAIN user.conditions :
        DOMAIN food.nutrients \cap LinkedNutrients(user.conditions[i]) # {}

_is_available(user, food, now_t) == TRUE

\* variant: after a workout only the foods with protein are eligible
generate_candidates_ByTrigger(user, now_t, trigger) ==
    SelectSeq(FoodList, LAMBDA food :
        /\ _check_diet_compatibility(user, food)
        /\ ~_has_allergy_risk(user, food)
        /\ _is_relevant_to_conditions(user, food)
        /\ _is_available(user, food, now_t)
        /\ (trigger = <<"post_activity">> => "protein" \in DOMAIN food.nutrients))

\* the eligible foods in catalog order; the trigger is not consulted
generate_candidates(user, now_t, trigger) ==
    SelectSeq(FoodList, LAMBDA food :
        /\ _check_diet_compatibility(user, food)
        /\ ~_has_allergy_risk(user, food)
        /\ _is_relevant_to_conditions(user, food)
        /\ _is_available(user, food, now_t))

(***************************************************************************)
(* Ranker.  Component scores are integers in thousandths; the total is in  *)
(* ten-thousandths, so that the weights 0.4 0.3 0.2 0.1 0.8 are 4 3 2 1 8. *)
(***************************************************************************)
W1 == 4
W2 == 3
W3 == 2
W4 == 1
W5 == 8
\* common multiple of the row counts over which a mean weight is taken
MeanScale == 3 * 4

RECURSIVE SumSeq(_)
SumSeq(s) == IF s = <<>> THEN 0 ELSE Head(s) + SumSeq(Tail(s))

RECURSIVE SumOver(_, _)
\* sum of f[x] over the finite set S
SumOver(f, S) ==
    IF S = {} THEN 0
    ELSE With(CHOOSE y \in S : TRUE, LAMBDA x :
            With(S \ {x}, LAMBDA rest : f[x] + SumOver(f, rest)))

RECURSIVE ISqrtB(_, _, _)
\* floor of the square root of x, with lo * lo <= x < hi * hi
ISqrtB(x, lo, hi) ==
    IF hi - lo <= 1 THEN lo
    ELSE With((lo + hi) \div 2, LAMBDA mid :
            IF mid * mid <= x THEN ISqrtB(x, mid, hi) ELSE ISqrtB(x, lo, mid))

ISqrt(x) == ISqrtB(x, 0, 46341)

\* dot / (norm1 * norm2) in thousandths; n1, n2 are the squared norms
_cosine_similarity(dot, n1, n2) ==
    IF n1 = 0 \/ n2 = 0 THEN 0
    ELSE (dot * 1000) \div ISqrt(n1 * n2)

\* variant: a nutrient the food does not list counts with amount 1
_calculate_condition_match_Default1(food, user) ==
    LET rows == SelectSeq(ConditionNutrients,
                          LAMBDA r : r.condition \in Range(user.conditions))
        all_nutrients == {r.nutrient : r \in Range(rows)}
        wsOf(n) == SelectSeq(rows, LAMBDA r : r.nutrient = n)
        mean == [n \in all_nutrients |->
                    (SumSeq([i \in DOMAIN wsOf(n) |-> wsOf(n)[i].weight]) * MeanScale)
                        \div Len(wsOf(n))]
        fv == [n \in all_nutrients |->
                  IF n \in DOMAIN food.nutrients THEN food.nutrients[n] ELSE 1]
    IN  IF Len(rows) = 0 THEN 0
        ELSE _cosine_similarity(
                SumOver([n \in all_nutrients |-> fv[n] * mean[n]], all_nutrients),
                SumOver([n \in all_nutrients |-> fv[n] * fv[n]], all_nutrients),
                SumOver([n \in all_nutrients |-> mean[n] * mean[n]], all_nutrients))

_calculate_condition_match(food, user) ==
    LET rows == SelectSeq(ConditionNutrients,
                          LAMBDA r : r.condition \in Range(user.conditions))
        all_nutrients == {r.nutrient : r \in Range(rows)}
        wsOf(n) == SelectSeq(rows, LAMBDA r : r.nutrient = n)
        \* the mean weight of the rows of nutrient n, times MeanScale
        mean == [n \in all_nutrients |->
                    (SumSeq([i \in DOMAIN wsOf(n) |-> wsOf(n)[i].weight]) * MeanScale)
                        \div Len(wsOf(n))]
        fv == [n \in all_nutrients |-> Amount(food, n)]
    IN  IF Len(rows) = 0 THEN 0
        ELSE _cosine_similarity(
                SumOver([n \in all_nutrients |-> fv[n] * mean[n]], all_nutrients),
                SumOver([n \in all_nutrients |-> fv[n] * fv[n]], all_nutrients),
                SumOver([n \in all_nutrients |-> mean[n] * mean[n]], all_nutrients))

Min(a, b) == IF a <= b THEN a ELSE b

_calculate_nutrient_gap_fit(food, user, now_t) ==
    LET yesterday == now_t - DAY
        recent_foods == SelectSeq(ActivityLogs, LAMBDA a :
                            /\ a.user_id = user.user_id
                            /\ a.event = "consumed"
                            /\ a.ts >= yesterday
                            /\ a.food_id \in FoodIds)
        consumed(n) == SumSeq([i \in DOMAIN recent_foods |->
                                  Amount(FoodById(recent_foods[i].food_id), n)])
        rows == SelectSeq(ConditionNutrients,
                          LAMBDA r : r.condition \in Range(user.conditions))
        targets == {r.nutrient : r \in Range(rows)}
        target_weight(n) ==
            CHOOSE w \in {r.weight : r \in {q \in Range(rows) : q.nutrient = n}} \cup {0} :
                \A r \in {q \in Range(rows) : q.nutrient = n} : w >= r.weight
        gaps == {n \in targets : consumed(n) < target_weight(n)}
        coverage == [n \in gaps |->
                        Min((Amount(food, n) * 1000) \div (target_weight(n) - consumed(n)), 1000)]
    IN  IF gaps = {} THEN 0 ELSE SumOver(coverage, gaps) \div Cardinality(gaps)

\* user_recent is the user's recency list as the ranking pass finds it
_calculate_recency_novelty(food, user_recent, now_t) ==
    LET week_ago == now_t - 7 * DAY
        recent_food_ids == {user_recent[i].food_id : i \in
                              {j \in DOMAIN user_recent :
                                  FromIsoFormat(user_recent[j].timestamp).t >= week_ago}}
    IN  IF food.food_id \in recent_food_ids THEN 100 ELSE 900

_calculate_scores(food, user, user_recent, now_t) ==
    [CondMatch |-> _calculate_condition_match(food, user),
     NutrientGapFit |-> _calculate_nutrient_gap_fit(food, user, now_t),
     AvailabilityBoost |-> 1000,
     RecencyNovelty |-> _calculate_recency_novelty(food, user_recent, now_t),
     AllergyRisk |-> 0]

TotalScore(scores) ==
    W1 * scores.CondMatch + W2 * scores.NutrientGapFit
      + W3 * scores.AvailabilityBoost + W4 * scores.RecencyNovelty
      - W5 * scores.AllergyRisk

RECURSIVE InsertDesc_Unstable(_, _)
\* variant: x goes in front of the elements whose score equals its own
InsertDesc_Unstable(x, s) ==
    IF s = <<>> THEN <<x>>
    ELSE IF Head(s).total > x.total THEN <<Head(s)>> \o InsertDesc_Unstable(x, Tail(s))
    ELSE <<x>> \o s

RECURSIVE InsertDesc(_, _)
\* insert x behind every element of the descending list s whose score is
\* at least its own: list.sort(key=..., reverse=True) is stable
InsertDesc(x, s) ==
    IF s = <<>> THEN <<x>>
    ELSE IF Head(s).total >= x.total THEN <<Head(s)>> \o InsertDesc(x, Tail(s))
    ELSE <<x>> \o s

RECURSIVE SortDesc(_)
SortDesc(s) ==
    IF s = <<>> THEN <<>>
    ELSE With(SortDesc(SubSeq(s, 1, Len(s) - 1)), LAMBDA sorted :
            InsertDesc(s[Len(s)], sorted))

rank_candidates(candidates, user, user_recent, now_t) ==
    LET scored_candidates == [i \in DOMAIN candidates |->
            With(_calculate_scores(candidates[i], user, user_recent, now_t),
                 LAMBDA scores : [food |-> candidates[i], total |-> TotalScore(scores),
                                  scores |-> scores])]
    \* the whole list is scored first, then sorted
    IN  With(SubSeq(scored_candidates, 1, Len(candidates)), LAMBDA scored : SortDesc(scored))

(***************************************************************************)
(* Message composer (the part that decides the returned item)              *)
(***************************************************************************)
\* one pass of the loop of _get_primary_condition_and_nutrients, for
\* condition i; best = [condition, score, key_nutrients] so far
PrimaryStep(food, user, i, best) ==
    LET condition == user.conditions[i]
        hits == SelectSeq(LinkRows(condition), LAMBDA r :
                   r.nutrient \in DOMAIN food.nutrients /\ food.nutrients[r.nutrient] > 0)
    IN  With(SumSeq([k \in DOMAIN hits |->
                       hits[k].weight * food.nutrients[hits[k].nutrient]]),
             LAMBDA score :
                IF score > best.score
                THEN [condition |-> condition, score |-> score,
                      key_nutrients |-> [k \in DOMAIN hits |-> hits[k].nutrient]]
                ELSE best)

\* the loop of _get_primary_condition_and_nutrients from condition i on
PrimaryFrom(food, user, i, best) ==
    FoldRange(LAMBDA k, b : PrimaryStep(food, user, k, b), best, i, Len(user.conditions))

_get_primary_condition_and_nutrients(food, user) ==
    PrimaryFrom(food, user, 1, [condition |-> <<>>, score |-> 0, key_nutrients |-> <<>>])

_select_template(trigger) ==
    IF trigger[1] = "condition_" THEN "condition_reminder"
    ELSE IF trigger \in {<<"pre_", "breakfast">>, <<"pre_", "lunch">>, <<"pre_", "dinner">>}
         THEN "pre_meal_basic"
    ELSE IF trigger = <<"post_activity">> THEN "post_workout"
    ELSE IF trigger = <<"social_viral">> THEN "science_fact"
    ELSE "pre_meal_basic"

\* nutrient_names.get(n, n)
FriendlyName(n) == IF n \in DOMAIN NutrientNames THEN NutrientNames[n] ELSE Chars[n]

_generate_benefit_text(nutrients, condition) ==
    LET friendly_nutrients ==
            [i \in 1..Min(Len(nutrients), 2) |-> FriendlyName(nutrients[i])]
    IN  IF nutrients = <<>> THEN <<"s","u","p","p","o","r","t","s"," ">> \o Lower(condition)
        ELSE IF Len(friendly_nutrients) = 1
             THEN friendly_nutrients[1] \o <<" ","b","o","o","s","t">>
        ELSE friendly_nutrients[1] \o <<" ","+"," ">> \o friendly_nutrients[2] \o <<" ","b","o","o","s","t">>

\* the key of the fact that goes with a trigger, fact_map.get(trigger, 'pre_meal')
FactKey(trigger) ==
    IF trigger = <<"pre_", "breakfast">> THEN "morning_boost"
    ELSE IF trigger \in {<<"pre_", "lunch">>, <<"pre_", "dinner">>} THEN "pre_meal"
    ELSE IF trigger = <<"post_activity">> THEN "post_activity"
    ELSE IF trigger = <<"social_viral">> THEN "omega3_benefits"
    ELSE "pre_meal"

\* line 519 returns the key 'evening_repair' itself, not self.facts of it
_get_why_now_fact(trigger, facts) ==
    IF trigger[1] = "condition_" THEN Chars["evening_repair"]
    ELSE LET fact_key == FactKey(trigger)
         IN  IF fact_key \in DOMAIN facts THEN facts[fact_key] ELSE GenericFact

RECURSIVE Flatten(_)
\* the concatenation of a sequence of character sequences
Flatten(ss) == IF ss = <<>> THEN <<>> ELSE Head(ss) \o Flatten(Tail(ss))

\* the template text with every placeholder replaced; the values hold no
\* placeholder themselves, so the order of the str.replace calls is immaterial
Replaced(text, food, benefit, condition, why_now) ==
    Flatten([i \in DOMAIN text |->
        IF text[i].ph = "" THEN text[i].lit
        ELSE IF text[i].ph = "food" THEN food.name
        ELSE IF text[i].ph = "benefit" THEN benefit
        ELSE IF text[i].ph = "condition" THEN Lower(condition)
        ELSE IF text[i].ph = "why_now" THEN why_now
        ELSE <<"T","r","y"," ">> \o Lower(food.name)])

\* variant: the cut keeps 160 characters before the ellipsis
_fill_template_Cut160(text, food, benefit, condition, why_now) ==
    LET filled == Replaced(text, food, benefit, condition, why_now)
    IN  IF Len(filled) > MaxMessageLen
        THEN SubSeq(filled, 1, MaxMessageLen) \o <<".", ".", ".">>
        ELSE filled

_fill_template(text, food, benefit, condition, why_now) ==
    LET filled == Replaced(text, food, benefit, condition, why_now)
    IN  IF Len(filled) > MaxMessageLen
        THEN SubSeq(filled, 1, KeptLen) \o <<".", ".", ".">>
        ELSE filled

\* round(score, 3): ten-thousandths to thousandths
Round3(total) == (total + 5) \div 10

\* the item generate_notifications builds from the composed notification
\* of the top-ranked candidate
ComposeItem(top, user, trigger) ==
    LET primary == _get_primary_condition_and_nutrients(top.food, user)
        benefit == _generate_benefit_text(primary.key_nutrients, primary.condition)
        template_id == _select_template(trigger)
        why_now == _get_why_now_fact(trigger, Facts)
    IN  [food_id |-> top.food.food_id,
         name |-> top.food.name,
         score |-> Round3(top.total),
         condition |-> primary.condition,
         key_nutrients |-> primary.key_nutrients,
         why_now |-> why_now,
         template_id |-> template_id,
         message |-> _fill_template(MessageTemplates[template_id], top.food,
                                    benefit, primary.condition, why_now),
         scores_breakdown |-> top.scores]

(***************************************************************************)
(* Recency state and rate limits                                           *)
(***************************************************************************)
\* self.recent_notifications.get(user_id, [])
RecentOf(recent, user_id) ==
    IF user_id \in DOMAIN recent THEN recent[user_id] ELSE <<>>

\* variant: the minimum gap to the last entry is not looked at
_check_rate_limits_NoGap(user_recent, now) ==
    LET today_start == TodayStart(now)
        today_notifications == SelectSeq(user_recent, LAMBDA notif :
                                  FromIsoFormat(notif.timestamp).t >= today_start)
    IN  Len(today_notifications) < DailyCap

\* variant: a gap of exactly three hours is rejected as well
_check_rate_limits_GapInclusive(user_recent, now) ==
    LET today_start == TodayStart(now)
        today_notifications == SelectSeq(user_recent, LAMBDA notif :
                                  FromIsoFormat(notif.timestamp).t >= today_start)
    IN  IF Len(today_notifications) >= DailyCap THEN FALSE
        ELSE IF user_recent # <<>>
                /\ now.t - FromIsoFormat(user_recent[Len(user_recent)].timestamp).t <= MinGapSecs
             THEN FALSE
        ELSE TRUE

_check_rate_limits(user_recent, now) ==
    LET today_start == TodayStart(now)
        today_notifications == SelectSeq(user_recent, LAMBDA notif :
                                  FromIsoFormat(notif.timestamp).t >= today_start)
    IN  IF Len(today_notifications) >= DailyCap THEN FALSE
        ELSE IF user_recent # <<>>
                /\ now.t - FromIsoFormat(user_recent[Len(user_recent)].timestamp).t < MinGapSecs
             THEN FALSE
        ELSE TRUE

\* variant: the list is cut to its first entries, [:20]
_update_recent_notifications_KeepFirst(user_recent, food_id, now) ==
    LET all == Append(user_recent,
                 [food_id |-> food_id, timestamp |-> IsoFormat(now), trigger |-> "recent"])
    IN  IF Len(all) <= MaxRecent THEN all ELSE SubSeq(all, 1, MaxRecent)

\* the user's list after _update_recent_notifications
_update_recent_notifications(user_recent, food_id, now) ==
    LastN(Append(user_recent,
                 [food_id |-> food_id, timestamp |-> IsoFormat(now), trigger |-> "recent"]),
          MaxRecent)

(***************************************************************************)
(* State of one agent                                                      *)
(***************************************************************************)
VARIABLES
    recent_notifications,  \* user_id -> list of entries; a key exists once written
    activity_ts_tz,        \* zone of the 'ts' column of the activity log
    message_templates,     \* the template ids of the loaded table
    appended,              \* history: every entry ever appended, per loaded user
    last,                  \* the last call: its arguments, its steps, its outcome
    tasks,                 \* the POST /generate requests of the service, by number
    running                \* the requests whose handler the event loop is executing

vars == <<recent_notifications, activity_ts_tz, message_templates, appended, last,
          tasks, running>>

ReturnList(val) == [kind |-> "list", exc |-> "", val |-> val]

Raise(exc) == [kind |-> "raise", exc |-> exc, val |-> <<>>]

NoNow == [t |-> 0, off |-> 0]

Init ==
    /\ recent_notifications = [u \in {} |-> <<>>]
    /\ activity_ts_tz = "naive"
    /\ message_templates \in TemplateTables
    /\ appended = [u \in UserIds |-> <<>>]
    /\ last = [op |-> "init", user_id |-> "", now |-> NoNow, rate_ok |-> FALSE,
               resolved |-> FALSE, drew |-> FALSE, triggers |-> <<>>,
               ret |-> ReturnList(<<>>)]
    /\ tasks = <<>>
    /\ running = {}

\* lines 114-117: .dt.tz_localize("UTC") raises TypeError on a column that
\* is already tz-aware, which it is from the first resolution on
TzLocalizeRaises == activity_ts_tz # "naive"

\* variant: the lookup of an unknown identifier leaves an empty record behind
UnknownUserReturn_CreatesRecord(call) ==
    /\ last' = call
    /\ recent_notifications' = (call.user_id :> <<>>) @@ recent_notifications
    /\ UNCHANGED <<activity_ts_tz, message_templates, appended>>

\* lines 559-560: `return []` for an identifier that is not in self.users
UnknownUserReturn(call) ==
    /\ last' = call
    /\ UNCHANGED <<recent_notifications, activity_ts_tz, message_templates, appended>>

\* variant: the triggers are resolved before the rate limits are looked at
RateLimitedReturn_ResolveFirst(call) ==
    /\ last' = [call EXCEPT !.resolved = TRUE]
    /\ activity_ts_tz' = "UTC"
    /\ UNCHANGED <<recent_notifications, message_templates, appended>>

\* lines 565-566: `return []` when _check_rate_limits fails
RateLimitedReturn(call) ==
    /\ last' = call
    /\ UNCHANGED <<recent_notifications, activity_ts_tz, message_templates, appended>>

\* variant: the item is composed from the last element of the ranking
TriggerStep_TakesLast(user, now, trigger, acc) ==
    IF acc.exc # "" THEN acc
    ELSE With(generate_candidates(user, now.t, trigger), LAMBDA candidates :
         IF candidates = <<>> THEN acc
         ELSE With(rank_candidates(candidates, user, acc.user_recent, now.t), LAMBDA ranked :
              With(ComposeItem(ranked[Len(ranked)], user, trigger), LAMBDA item :
              IF item.template_id \notin message_templates
              THEN [acc EXCEPT !.exc = "KeyError"]
              ELSE [user_recent |-> _update_recent_notifications(
                                       acc.user_recent, item.food_id, now),
                    added |-> Append(acc.added,
                                [food_id |-> item.food_id, timestamp |-> IsoFormat(now),
                                 trigger |-> "recent"]),
                    bundles |-> Append(acc.bundles,
                                [user_id |-> user.user_id, trigger |-> trigger,
                                 generated_at |-> IsoFormat(now), items |-> <<item>>]),
                    exc |-> ""])))

\* one pass of the loop of generate_notifications, for one trigger;
\* acc = [user_recent, added, bundles, exc]; an exception ends the loop
TriggerStep(user, now, trigger, acc) ==
    IF acc.exc # "" THEN acc
    ELSE With(generate_candidates(user, now.t, trigger), LAMBDA candidates :
         IF candidates = <<>> THEN acc
         ELSE With(rank_candidates(candidates, user, acc.user_recent, now.t), LAMBDA ranked :
              With(ComposeItem(ranked[1], user, trigger), LAMBDA item :
              IF item.template_id \notin message_templates
              THEN [acc EXCEPT !.exc = "KeyError"]
              ELSE [user_recent |-> _update_recent_notifications(
                                       acc.user_recent, item.food_id, now),
                    added |-> Append(acc.added,
                                [food_id |-> item.food_id, timestamp |-> IsoFormat(now),
                                 trigger |-> "recent"]),
                    bundles |-> Append(acc.bundles,
                                [user_id |-> user.user_id, trigger |-> trigger,
                                 generated_at |-> IsoFormat(now), items |-> <<item>>]),
                    exc |-> ""])))

\* the loop of generate_notifications over the triggers from index i on
TriggerLoop(user, now, triggers, i, acc) ==
    FoldRange(LAMBDA k, a : TriggerStep(user, now, triggers[k], a), acc, i, Len(triggers))

\* agent.generate_notifications(user_id, now); draw is random.random() < 0.1
GenerateNotifications(user_id, now, draw) ==
    LET call == [op |-> "generate", user_id |-> user_id, now |-> now, rate_ok |-> FALSE,
                 resolved |-> FALSE, drew |-> FALSE, triggers |-> <<>>,
                 ret |-> ReturnList(<<>>)]
    IN
    /\ UNCHANGED <<tasks, running>>
    /\ IF user_id \notin UserIds THEN UnknownUserReturn(call)
       ELSE IF ~_check_rate_limits(RecentOf(recent_notifications, user_id), now)
            THEN RateLimitedReturn(call)
       ELSE IF TzLocalizeRaises THEN
           /\ last' = [call EXCEPT !.rate_ok = TRUE, !.resolved = TRUE,
                                   !.ret = Raise("TypeError")]
           /\ UNCHANGED <<recent_notifications, activity_ts_tz, message_templates, appended>>
       ELSE
           \E user \in {Users[user_id]} :
           \E triggers \in {resolve_triggers(user, now.t, draw)} :
           \E out \in {TriggerLoop(user, now, triggers, 1,
                          [user_recent |-> RecentOf(recent_notifications, user_id),
                           added |-> <<>>, bundles |-> <<>>, exc |-> ""])} :
               /\ activity_ts_tz' = "UTC"
               /\ recent_notifications' =
                     IF out.added = <<>> THEN recent_notifications
                     ELSE (user_id :> out.user_recent) @@ recent_notifications
               /\ appended' = [appended EXCEPT ![user_id] = @ \o out.added]
               /\ last' = [call EXCEPT
                     !.rate_ok = TRUE, !.resolved = TRUE,
                     !.drew = (~InQuietHours(user, now.t) /\ InViralWindow(user, now.t)),
                     !.triggers = triggers,
                     !.ret = IF out.exc # "" THEN Raise(out.exc) ELSE ReturnList(out.bundles)]
               /\ UNCHANGED message_templates

\* agent.resolve_triggers(user, now), as the inspection endpoint calls it
ResolveTriggers(user_id, now, draw) ==
    LET call == [op |-> "resolve", user_id |-> user_id, now |-> now, rate_ok |-> FALSE,
                 resolved |-> TRUE, drew |-> FALSE, triggers |-> <<>>,
                 ret |-> ReturnList(<<>>)]
        user == Users[user_id]
    IN  /\ user_id \in UserIds
        /\ IF TzLocalizeRaises
           THEN /\ last' = [call EXCEPT !.ret = Raise("TypeError")]
                /\ UNCHANGED activity_ts_tz
           ELSE \E triggers \in {resolve_triggers(user, now.t, draw)} :
                /\ last' = [call EXCEPT
                      !.drew = (~InQuietHours(user, now.t) /\ InViralWindow(user, now.t)),
                      !.triggers = triggers, !.ret = ReturnList(triggers)]
                /\ activity_ts_tz' = "UTC"
        /\ UNCHANGED <<recent_notifications, message_templates, appended, tasks, running>>

\* the triggers a caller of generate_candidates passes
CallerTriggers == {<<"pre_", "lunch">>, <<"post_activity">>}

\* agent.generate_candidates(user, now, trigger), as the demo calls it;
\* the outcome lists the food ids of the candidates
GenerateCandidates(user_id, now, trigger) ==
    /\ user_id \in UserIds
    /\ last' = [op |-> "candidates", user_id |-> user_id, now |-> now, rate_ok |-> FALSE,
                resolved |-> FALSE, drew |-> FALSE, triggers |-> <<trigger>>,
                ret |-> ReturnList(
                    With(generate_candidates(Users[user_id], now.t, trigger),
                         LAMBDA c : [i \in DOMAIN c |-> c[i].food_id]))]
    /\ UNCHANGED <<recent_notifications, activity_ts_tz, message_templates, appended,
                   tasks, running>>

\* agent.rank_candidates(candidates, user, now, trigger) on the candidates of
\* generate_candidates, as the demo calls it; the outcome lists, for every
\* ranked candidate, its food id, its total score and its component scores
RankCandidates(user_id, now, trigger) ==
    /\ user_id \in UserIds
    /\ last' = [op |-> "rank", user_id |-> user_id, now |-> now, rate_ok |-> FALSE,
                resolved |-> FALSE, drew |-> FALSE, triggers |-> <<trigger>>,
                ret |-> ReturnList(
                    With(generate_candidates(Users[user_id], now.t, trigger),
                         LAMBDA candidates :
                    With(rank_candidates(candidates, Users[user_id],
                                         RecentOf(recent_notifications, user_id), now.t),
                         LAMBDA ranked :
                            [i \in DOMAIN ranked |->
                                [food_id |-> ranked[i].food.food_id,
                                 total |-> ranked[i].total,
                                 scores |-> ranked[i].scores]])))]
    /\ UNCHANGED <<recent_notifications, activity_ts_tz, message_templates, appended,
                   tasks, running>>

\* the users whose candidates the demo ranks
RankUsers == {"u001", "u004"}

\* the outcomes of random.random() < 0.1 that a call can observe: the draw
\* is made only when line 155 evaluates its second operand
DrawsFor(user_id, now) ==
    IF /\ user_id \in UserIds
       /\ ~InQuietHours(Users[user_id], now.t)
       /\ InViralWindow(Users[user_id], now.t)
    THEN BOOLEAN ELSE {FALSE}

\* the datetimes passed with an identifier that is not loaded, to the
\* inspection endpoint, and to generate_candidates
UnknownNows == {[t |-> DAY + 25200, off |-> 0]}

ResolveNows ==
    {[t |-> DAY + s, off |-> 0] : s \in {7200, 25200, 46800}}
    \* 02:35:30 UTC of day 1, and 13:00 UTC of the day before the first
    \* entry of the activity log
    \cup {[t |-> DAY + 9330, off |-> 0], [t |-> 46800, off |-> 0]}

CandidateNows == {[t |-> DAY + 25200, off |-> 0]}

\* the datetimes passed to generate_candidates
FilterNows == CandidateNows \cup {[t |-> 2 * DAY + 68400, off |-> 0]}

NowsFor(user_id) == IF user_id \in UserIds THEN NowValues ELSE UnknownNows

Next ==
    \/ \E user_id \in CallerIds : \E now \in NowsFor(user_id) :
          \E draw \in DrawsFor(user_id, now) : GenerateNotifications(user_id, now, draw)
    \/ \E user_id \in UserIds, now \in ResolveNows :
          \E draw \in DrawsFor(user_id, now) : ResolveTriggers(user_id, now, draw)
    \/ \E user_id \in UserIds, now \in FilterNows, trigger \in CallerTriggers :
          GenerateCandidates(user_id, now, trigger)
    \/ \E user_id \in RankUsers, now \in CandidateNows :
          RankCandidates(user_id, now, <<"pre_", "lunch">>)

Spec == Init /\ [][Next]_vars

(***************************************************************************)
(* The service (api_service.py).  POST /generate is an `async def` handler *)
(* whose body holds no await: uvicorn's single event loop runs the handler *)
(* of one request from its first line to its return before it starts the   *)
(* handler of another.  The agent itself takes no lock.  The handler is     *)
(* modelled in the steps at which a thread could be preempted: the lookup  *)
(* of the user, the rate-limit check, the resolution with the trigger loop, *)
(* and the response.                                                       *)
(***************************************************************************)
RequestIds == 1..MaxRequests

\* the bodies of the requests that clients send
RequestUsers == {"u001", "u002", "u006", "u999"}

\* 07:00 UTC of day 1 and three hours later
RequestNows == {[t |-> DAY + 25200, off |-> 0], [t |-> DAY + 36000, off |-> 0]}

NoTask == [pc |-> "idle", user_id |-> "", now |-> NoNow, ret |-> ReturnList(<<>>)]

ServiceInit ==
    /\ recent_notifications = [u \in {} |-> <<>>]
    /\ activity_ts_tz = "naive"
    /\ message_templates = TemplateIds
    /\ appended = [u \in UserIds |-> <<>>]
    /\ last = [op |-> "init", user_id |-> "", now |-> NoNow, rate_ok |-> FALSE,
               resolved |-> FALSE, drew |-> FALSE, triggers |-> <<>>,
               ret |-> ReturnList(<<>>)]
    /\ tasks = [r \in RequestIds |-> NoTask]
    /\ running = {}

\* variant: the handler is a plain `def`, which the framework runs in a
\* pool of worker threads
CanStart_ThreadPool(executing) == TRUE

\* the event loop starts a handler only when it is executing none
CanStart(executing) == executing = {}

\* a client posts request r
Request(r, user_id, now) ==
    /\ tasks[r].pc = "idle"
    /\ tasks' = [tasks EXCEPT ![r] = [pc |-> "queued", user_id |-> user_id,
                                     now |-> now, ret |-> ReturnList(<<>>)]]
    /\ UNCHANGED <<recent_notifications, activity_ts_tz, message_templates, appended,
                   last, running>>

\* the handler of request r is entered
Schedule(r) ==
    /\ tasks[r].pc = "queued"
    /\ CanStart(running)
    /\ running' = running \cup {r}
    /\ tasks' = [tasks EXCEPT ![r].pc = "lookup"]
    /\ UNCHANGED <<recent_notifications, activity_ts_tz, message_templates, appended, last>>

\* lines 98-102 of the handler: 404 for a user that is not loaded
Lookup(r) ==
    /\ r \in running
    /\ tasks[r].pc = "lookup"
    /\ tasks' = [tasks EXCEPT ![r] =
                    IF tasks[r].user_id \notin UserIds
                    THEN [@ EXCEPT !.pc = "respond", !.ret = Raise("HTTP404")]
                    ELSE [@ EXCEPT !.pc = "check"]]
    /\ UNCHANGED <<recent_notifications, activity_ts_tz, message_templates, appended,
                   last, running>>

\* lines 565-566 of generate_notifications, reached from line 116 of the handler
Check(r) ==
    /\ r \in running
    /\ tasks[r].pc = "check"
    /\ tasks' = [tasks EXCEPT ![r].pc =
                    IF _check_rate_limits(RecentOf(recent_notifications, tasks[r].user_id),
                                          tasks[r].now)
                    THEN "emit" ELSE "respond"]
    /\ UNCHANGED <<recent_notifications, activity_ts_tz, message_templates, appended,
                   last, running>>

\* lines 569-620 of generate_notifications; an exception becomes the
\* response 500 of lines 132-133 of the handler
Emit(r, draw) ==
    /\ r \in running
    /\ tasks[r].pc = "emit"
    /\ IF TzLocalizeRaises
       THEN /\ tasks' = [tasks EXCEPT ![r].pc = "respond", ![r].ret = Raise("HTTP500")]
            /\ UNCHANGED <<recent_notifications, activity_ts_tz, appended>>
       ELSE \E user \in {Users[tasks[r].user_id]} :
            \E now \in {tasks[r].now} :
            \E triggers \in {resolve_triggers(user, now.t, draw)} :
            \E out \in {TriggerLoop(user, now, triggers, 1,
                           [user_recent |-> RecentOf(recent_notifications, user.user_id),
                            added |-> <<>>, bundles |-> <<>>, exc |-> ""])} :
                /\ activity_ts_tz' = "UTC"
                /\ recent_notifications' =
                      IF out.added = <<>> THEN recent_notifications
                      ELSE (user.user_id :> out.user_recent) @@ recent_notifications
                /\ appended' = [appended EXCEPT ![user.user_id] = @ \o out.added]
                /\ tasks' = [tasks EXCEPT
                      ![r].pc = "respond",
                      ![r].ret = IF out.exc # "" THEN Raise("HTTP500")
                                 ELSE ReturnList(out.bundles)]
    /\ UNCHANGED <<message_templates, last, running>>

\* the handler returns and the event loop is free again
Respond(r) ==
    /\ r \in running
    /\ tasks[r].pc = "respond"
    /\ tasks' = [tasks EXCEPT ![r].pc = "done"]
    /\ running' = running \ {r}
    /\ UNCHANGED <<recent_notifications, activity_ts_tz, message_templates, appended, last>>

ServiceNext ==
    \/ \E r \in RequestIds, user_id \in RequestUsers, now \in RequestNows :
          Request(r, user_id, now)
    \/ \E r \in RequestIds : Schedule(r)
    \/ \E r \in RequestIds : Lookup(r)
    \/ \E r \in RequestIds : Check(r)
    \/ \E r \in RequestIds : \E draw \in DrawsFor(tasks[r].user_id, tasks[r].now) :
          Emit(r, draw)
    \/ \E r \in RequestIds : Respond(r)

ServiceSpec == ServiceInit /\ [][ServiceNext]_vars

(***************************************************************************)
(* The condition match on its own: _calculate_condition_match applied to   *)
(* a food of the catalog and a profile of conditions                       *)
(***************************************************************************)
\* the conditions a profile is drawn from: linked ones, one whose link
\* weights are 0 and one without link rows
ProfileConditions == {GlowingSkin, HairFall, EnergyBoost, Immunity, Detox, ExtraCond(1)}

\* the profiles: lists of at most MaxProfile distinct conditions
Profiles ==
    {cs \in UNION {[1..n -> ProfileConditions] : n \in 0..MaxProfile} :
        \A i, j \in DOMAIN cs : cs[i] = cs[j] => i = j}

ScoreInit ==
    /\ recent_notifications = [u \in {} |-> <<>>]
    /\ activity_ts_tz = "naive"
    /\ message_templates = TemplateIds
    /\ appended = [u \in UserIds |-> <<>>]
    /\ \E conditions \in Profiles, food_id \in FoodIds :
          last = [op |-> "input", conditions |-> conditions, food_id |-> food_id,
                  ret |-> ReturnList(<<>>)]
    /\ tasks = <<>>
    /\ running = {}

\* self._calculate_condition_match(food, user) on the drawn food and
\* profile: the outcome is the score
ConditionMatch ==
    /\ last.op = "input"
    /\ last' = [last EXCEPT
          !.op = "condition_match",
          !.ret = ReturnList(<<_calculate_condition_match(
                                  FoodById(last.food_id),
                                  [conditions |-> last.conditions])>>)]
    /\ UNCHANGED <<recent_notifications, activity_ts_tz, message_templates, appended,
                   tasks, running>>

ScoreNext == ConditionMatch

ScoreSpec == ScoreInit /\ [][ScoreNext]_vars

(***************************************************************************)
(* Properties                                                              *)
(***************************************************************************)
\* the foods the last call handed out: the items of the bundles of
\* generate_notifications, or the list of generate_candidates
ReturnedFoodIds ==
    IF last.ret.kind # "list" THEN {}
    ELSE IF last.op = "generate"
         THEN {last.ret.val[i].items[k].food_id :
                  i \in DOMAIN last.ret.val, k \in {1}}
    ELSE IF last.op = "candidates" THEN Range(last.ret.val)
    ELSE {}

LastUserLoaded == last.op # "init" /\ last.user_id \in UserIds

\* the food shares a tag or an ingredient with the allergies of the user
SharesAllergen(user, food) ==
    \E x \in Range(user.allergies) :
        x \in Range(food.tags) \/ x \in Range(food.ingredients)

\* C1: no food handed out to a user, in a bundle of generate_notifications
\* or by generate_candidates, has a tag or an ingredient among the
\* allergies of that user.
C1_AllergySafety ==
    LastUserLoaded =>
        \A fid \in ReturnedFoodIds : ~SharesAllergen(Users[last.user_id], FoodById(fid))

\* a bundle was returned to a user for whom the catalog holds a food that
\* passes the diet and relevance constraints and carries an allergen
C1_Witness ==
    /\ last.op = "generate"
    /\ LastUserLoaded
    /\ ReturnedFoodIds # {}
    /\ \E food \in Range(FoodList) :
          /\ SharesAllergen(Users[last.user_id], food)
          /\ _check_diet_compatibility(Users[last.user_id], food)
          /\ _is_relevant_to_conditions(Users[last.user_id], food)

\* the diet rule as the specification words it
DietAllows(user, food) ==
    CASE user.diet_pref = "veg" -> food.is_veg
      [] user.diet_pref = "egg" -> food.is_veg \/ "eggs" \in Range(food.ingredients)
      [] user.diet_pref = "nonveg" -> TRUE

\* C2: the single-food predicate agrees with the diet rule for every
\* (user, food) pair (a vegetarian gets only vegetarian food, an eggetarian
\* vegetarian food or food with eggs, a non-vegetarian every food), and so
\* does every food handed out by generate_candidates or in a bundle; for a
\* non-vegetarian user generate_candidates drops no food on diet grounds.
C2_DietCompatibility ==
    /\ \A u \in UserIds : \A food \in Range(FoodList) :
          _check_diet_compatibility(Users[u], food) = DietAllows(Users[u], food)
    /\ LastUserLoaded =>
          \A fid \in ReturnedFoodIds : DietAllows(Users[last.user_id], FoodById(fid))
    /\ (LastUserLoaded /\ last.op = "candidates"
            /\ Users[last.user_id].diet_pref = "nonveg") =>
          \A food \in Range(FoodList) :
              (~SharesAllergen(Users[last.user_id], food)
                  /\ _is_relevant_to_conditions(Users[last.user_id], food))
              => food.food_id \in ReturnedFoodIds

\* a bundle was returned to a vegetarian or eggetarian user for whom the
\* catalog holds a relevant, allergen-free food that the diet forbids
C2_Witness ==
    /\ last.op = "generate"
    /\ LastUserLoaded
    /\ ReturnedFoodIds # {}
    /\ Users[last.user_id].diet_pref \in {"veg", "egg"}
    /\ \E food \in Range(FoodList) :
          /\ ~DietAllows(Users[last.user_id], food)
          /\ ~SharesAllergen(Users[last.user_id], food)
          /\ _is_relevant_to_conditions(Users[last.user_id], food)

\* the hour of the wall clock of the user lies in the quiet hours
QuietLocalHour(user_id, now) ==
    LET h == ((now.t + TzOffset[Users[user_id].tz]) % DAY) \div HOUR
    IN  h >= 22 \/ h <= 7

\* C3: in the quiet hours of the user (local hour >= 22 or <= 7)
\* resolve_triggers returns the empty collection and generate_notifications
\* returns the empty list.
C3_QuietHours ==
    (LastUserLoaded /\ last.op \in {"generate", "resolve"}
        /\ QuietLocalHour(last.user_id, last.now))
    => last.ret = ReturnList(<<>>)

\* C3 on a fresh activity log: the first resolution of an agent in the
\* quiet hours of the user returns no trigger
C3_QuietHoursFirstResolution ==
    (LastUserLoaded /\ last.op \in {"generate", "resolve"}
        /\ QuietLocalHour(last.user_id, last.now)
        /\ last.ret.kind = "list")
    => (last.ret = ReturnList(<<>>) /\ last.triggers = <<>>)

\* instant of an entry of a recency list
EntryInstant(entry) == entry.timestamp.wall - entry.timestamp.off

\* midnight, in the zone of the user, of the local date of now
LocalMidnight(user_id, now) ==
    now.t - ((now.t + TzOffset[Users[user_id].tz]) % DAY)

\* number of entries of the list at or after instant m
CountSince(list, m) ==
    Cardinality({i \in DOMAIN list : EntryInstant(list[i]) >= m})

\* instant of the most recent entry of a non-empty list
MostRecent(list) ==
    CHOOSE m \in {EntryInstant(list[i]) : i \in DOMAIN list} :
        \A i \in DOMAIN list : EntryInstant(list[i]) <= m

\* the step is a generate_notifications call for a loaded user
GenerateStepLoaded == last'.op = "generate" /\ last'.user_id \in UserIds

\* C4: a call is rejected whenever the recency list of the user holds two or
\* more entries at or after midnight, in the zone of the user, of the local
\* date of now; entries before that midnight do not count, so that a call
\* with fewer such entries and a sufficient gap passes the rate limits.
C4_DailyCapLocalMidnight ==
    [][GenerateStepLoaded =>
        LET list == RecentOf(recent_notifications, last'.user_id)
            n == CountSince(list, LocalMidnight(last'.user_id, last'.now))
            gap_ok == list = <<>> \/ last'.now.t - MostRecent(list) >= MinGapSecs
        IN  /\ n >= DailyCap => (~last'.rate_ok /\ last'.ret = ReturnList(<<>>))
            /\ (n < DailyCap /\ gap_ok) => last'.rate_ok]_vars

\* C5: with a recorded notification, a call less than three hours after the
\* most recent one is rejected with the empty list; a call three hours or
\* more after it is not rejected on the ground of the gap (it passes when
\* the list is too short for the daily cap); with no recorded notification
\* the call passes the rate limits.
C5_MinimumGap ==
    [][GenerateStepLoaded =>
        LET list == RecentOf(recent_notifications, last'.user_id)
        IN  /\ (list # <<>> /\ last'.now.t - MostRecent(list) < MinGapSecs)
                  => (~last'.rate_ok /\ last'.ret = ReturnList(<<>>))
            /\ (list # <<>> /\ Len(list) < DailyCap
                  /\ last'.now.t - MostRecent(list) >= MinGapSecs) => last'.rate_ok
            /\ list = <<>> => last'.rate_ok]_vars

\* a call exactly three hours after the only recorded notification of the
\* user has passed the rate limits
C5_Witness ==
    /\ last.op = "generate"
    /\ LastUserLoaded
    /\ last.rate_ok
    /\ Len(RecentOf(recent_notifications, last.user_id)) = 1
    /\ last.now.t - MostRecent(RecentOf(recent_notifications, last.user_id)) = MinGapSecs

\* calendar day, in the zone of the user, of an entry
LocalDayOf(user_id, entry) ==
    (EntryInstant(entry) + TzOffset[Users[user_id].tz]) \div DAY

\* C6: for every user and every calendar day at most two of the entries
\* ever appended for the user carry a timestamp of that day.
C6_MaxTwoPerDay ==
    \A u \in UserIds : \A i \in DOMAIN appended[u] :
        Cardinality({j \in DOMAIN appended[u] :
            LocalDayOf(u, appended[u][j]) = LocalDayOf(u, appended[u][i])}) <= DailyCap

\* C7: a call that fails the rate-limit check returns the empty list, does
\* not enter trigger resolution (no random draw, no access to the activity
\* log) and leaves every recency list as it was.
C7_RateLimitedEarlyExit ==
    [][(GenerateStepLoaded /\ ~last'.rate_ok) =>
        /\ last'.ret = ReturnList(<<>>)
        /\ ~last'.resolved
        /\ ~last'.drew
        /\ UNCHANGED <<recent_notifications, activity_ts_tz, appended>>]_vars

\* a call of a user with recorded notifications was rejected
C7_Witness ==
    /\ last.op = "generate"
    /\ LastUserLoaded
    /\ ~last.rate_ok
    /\ RecentOf(recent_notifications, last.user_id) # <<>>

\* C8: a call with an identifier that is not loaded returns the empty list,
\* raises nothing, creates no recency list and changes no state.
C8_UnknownUser ==
    [][(last'.op = "generate" /\ last'.user_id \notin UserIds) =>
        /\ last'.ret = ReturnList(<<>>)
        /\ last'.user_id \notin DOMAIN recent_notifications'
        /\ UNCHANGED <<recent_notifications, activity_ts_tz, message_templates, appended>>]_vars

\* a call with an unknown identifier was made on an agent that holds records
C8_Witness ==
    /\ last.op = "generate"
    /\ last.user_id \notin UserIds
    /\ DOMAIN recent_notifications # {}

\* C9: generate_notifications returns a list and never raises.
C9_NeverRaises ==
    last.op = "generate" => last.ret.kind = "list"

\* the last min(MaxRecent, n) of the n entries of a history
KeptSuffix(history) ==
    [i \in 1..(IF Len(history) < MaxRecent THEN Len(history) ELSE MaxRecent) |->
        history[i + Len(history) - (IF Len(history) < MaxRecent THEN Len(history) ELSE MaxRecent)]]

\* C10: the recency list of every user has at most 20 entries and is the
\* last min(20, n) of the n entries ever appended for the user, in order.
C10_RecencyBound ==
    \A u \in UserIds :
        /\ Len(RecentOf(recent_notifications, u)) <= MaxRecent
        /\ RecentOf(recent_notifications, u) = KeptSuffix(appended[u])

\* more than 20 entries were appended for a user and 20 are kept
C10_Witness ==
    \E u \in UserIds :
        /\ Len(appended[u]) > MaxRecent
        /\ Len(RecentOf(recent_notifications, u)) = MaxRecent

\* the items of the bundles the last generate_notifications call returned
ReturnedItems ==
    IF last.op = "generate" /\ last.ret.kind = "list"
    THEN {last.ret.val[i].items[1] : i \in DOMAIN last.ret.val}
    ELSE {}

\* the text of the template of an item with its placeholders replaced,
\* before any cut
FilledOf(item) ==
    Replaced(MessageTemplates[item.template_id], FoodById(item.food_id),
             _generate_benefit_text(item.key_nutrients, item.condition),
             item.condition, item.why_now)

\* C11: every message of a returned bundle has at most 160 characters; a
\* filled text of at most 160 characters is returned unchanged, a longer one
\* is returned as its first 157 characters followed by "..." (160 characters).
C11_MessageLength ==
    \A item \in ReturnedItems :
        LET filled == FilledOf(item)
        IN  /\ Len(item.message) <= 160
            /\ Len(filled) <= 160 => item.message = filled
            /\ Len(filled) > 160 =>
                  /\ Len(item.message) = 160
                  /\ \A k \in 1..157 : item.message[k] = filled[k]
                  /\ \A k \in 158..160 : item.message[k] = "."

\* a returned message is the cut of a filled text of more than 160
\* characters, and another returned message is an uncut text
C11_Witness ==
    /\ \E item \in ReturnedItems : Len(FilledOf(item)) > 160
    /\ \E item \in ReturnedItems : Len(FilledOf(item)) <= 160 /\ item.message # <<>>

\* request r has read the recency list and decided to go on, and has not
\* yet appended its entries
InCriticalSection(r) == tasks[r].pc = "emit"

\* request r takes a step of its sequence 'read, decide, append'
CriticalStep(r) == tasks[r].pc \in {"check", "emit"} /\ tasks'[r].pc # tasks[r].pc

\* C12: no step of the sequence 'read the records, decide, append' of one
\* call is taken while another call for the same user is between its
\* rate-limit check and its appends; so two calls for one user are never
\* both past the check before either has appended.
C12_AtomicRateLimiting ==
    [][\A r \in RequestIds : CriticalStep(r) =>
          ~\E q \in RequestIds \ {r} :
              tasks[q].user_id = tasks[r].user_id /\ InCriticalSection(q)]_vars

\* two requests for one user are in flight at once: one is past its
\* rate-limit check and has not appended, the other waits
C12_Witness ==
    \E r, q \in RequestIds :
        /\ r # q
        /\ tasks[r].user_id = tasks[q].user_id
        /\ tasks[r].user_id \in UserIds
        /\ InCriticalSection(r)
        /\ tasks[q].pc = "queued"

\* a call went through trigger resolution and resolution returned its list
ResolutionReturned ==
    /\ last.op \in {"generate", "resolve"}
    /\ LastUserLoaded
    /\ last.resolved
    /\ last.ret.exc # "TypeError"

\* wall-clock reading, in the zone of the user, of the instant of the call
LocalNow == last.now.t + TzOffset[Users[last.user_id].tz]

NotQuiet == ResolutionReturned /\ ~QuietLocalHour(last.user_id, last.now)

\* today's instant of the meal "HH:MM" on the wall clock of the user
MealInstant(hhmm) ==
    (LocalNow - (LocalNow % DAY)) + (10 * hhmm[1] + hhmm[2]) * 3600
        + (10 * hhmm[3] + hhmm[4]) * 60

\* C13: outside the quiet hours, pre_<meal> is among the resolved triggers
\* if and only if the local time of the call is at most 300 seconds, counted
\* in seconds, away from the instant 30 minutes before today's meal.
C13_PreMealWindow ==
    NotQuiet =>
        \A i \in DOMAIN Users[last.user_id].usual_meal_times :
            LET meal == Users[last.user_id].usual_meal_times[i]
                diff == LocalNow - (MealInstant(meal[2]) - 1800)
            IN  (<<"pre_", meal[1]>> \in Range(last.triggers))
                    <=> (-300 <= diff /\ diff <= 300)

\* C14: outside the quiet hours, post_activity is among the resolved
\* triggers if and only if the log holds a worked_out event of the user at
\* an instant t with now - 2h <= t <= now.
C14_PostActivityWindow ==
    NotQuiet =>
        ((<<"post_activity">> \in Range(last.triggers))
            <=> \E a \in Range(ActivityLogs) :
                    /\ a.user_id = last.user_id
                    /\ a.event = "worked_out"
                    /\ last.now.t - 7200 <= a.ts
                    /\ a.ts <= last.now.t)

\* nutrients of the foods the user consumed in the seven days up to now
ConsumedInTrailingWeek(user_id, now_t) ==
    UNION {DOMAIN FoodById(a.food_id).nutrients :
              a \in {b \in Range(ActivityLogs) :
                        /\ b.user_id = user_id
                        /\ b.event = "consumed"
                        /\ b.food_id \in FoodIds
                        /\ now_t - 7 * DAY <= b.ts
                        /\ b.ts <= now_t}}

\* C15: outside the quiet hours, for every condition C of the user,
\* condition_<C in lower case with "_" for " "> is among the resolved
\* triggers if and only if no nutrient of a food the user consumed in the
\* trailing seven days is linked to C.
C15_ConditionReminder ==
    NotQuiet =>
        \A i \in DOMAIN Users[last.user_id].conditions :
            LET C == Users[last.user_id].conditions[i]
            IN  (<<"condition_", ReplaceSpace(Lower(C))>> \in Range(last.triggers))
                    <=> (ConsumedInTrailingWeek(last.user_id, last.now.t)
                            \cap {r.nutrient : r \in {q \in Range(ConditionNutrients) :
                                                        q.condition = C}} = {})

\* local hour of the user at the instant of the call
LocalHourOfCall == (LocalNow % DAY) \div HOUR

\* instants of day 1 at which the wall clock of a zone reads 16:59:59,
\* 17:00:00, 20:59:59 and 21:00:00
EveningEdges(off) == {DAY + s - off : s \in {61199, 61200, 75599, 75600}}

\* C16: social_viral is among the resolved triggers only when the local hour
\* of the user is in 17..20; in that window the call makes a draw and both
\* outcomes of the draw are open to it, one with and one without
\* social_viral; at any other local hour social_viral is not returned
\* whatever the draw.
C16_SocialViralWindow ==
    /\ ResolutionReturned =>
          /\ (<<"social_viral">> \in Range(last.triggers))
                => (17 <= LocalHourOfCall /\ LocalHourOfCall <= 20 /\ last.drew)
          /\ (17 <= LocalHourOfCall /\ LocalHourOfCall <= 20)
                => (last.drew /\ DrawsFor(last.user_id, last.now) = BOOLEAN)
    /\ \A u \in {"u001", "u002", "u003"} : \A t \in EveningEdges(TzOffset[Users[u].tz]) :
          LET h == ((t + TzOffset[Users[u].tz]) % DAY) \div HOUR
              with == <<"social_viral">> \in Range(resolve_triggers(Users[u], t, TRUE))
              without == <<"social_viral">> \in Range(resolve_triggers(Users[u], t, FALSE))
          IN  /\ ~without
              /\ with <=> (17 <= h /\ h <= 20)

\* a call in the evening window of the user has returned social_viral
C16_Witness ==
    /\ ResolutionReturned
    /\ last.drew
    /\ <<"social_viral">> \in Range(last.triggers)
    /\ LocalHourOfCall \in 17..20

\* the ranking the last rank_candidates call returned
Ranked == IF last.op = "rank" /\ last.ret.kind = "list" THEN last.ret.val ELSE <<>>

\* the food ids of the candidates handed to the last rank_candidates call,
\* in their input order
RankInput ==
    LET c == generate_candidates(Users[last.user_id], last.now.t, last.triggers[1])
    IN  [i \in DOMAIN c |-> c[i].food_id]

\* position of a food id in a list of distinct food ids
PositionIn(list, fid) == CHOOSE i \in DOMAIN list : list[i] = fid

EmittedInTrailingWeek(history, fid, now_t) ==
    \E i \in DOMAIN history :
        /\ history[i].food_id = fid
        /\ now_t - 7 * DAY <= EntryInstant(history[i])
        /\ EntryInstant(history[i]) <= now_t

NeverEmitted(history, fid) == \A i \in DOMAIN history : history[i].food_id # fid

\* the RecencyNovelty of a food scored against a history is as claimed
NoveltyAsClaimed(history, fid, now_t, novelty) ==
    /\ EmittedInTrailingWeek(history, fid, now_t) => novelty = 100
    /\ NeverEmitted(history, fid) => novelty = 900

\* C18: whenever a food is scored for a user at an instant now, its
\* RecencyNovelty is 0.1 if the food was emitted to that user with a
\* timestamp in the seven days up to now, and 0.9 if it was never emitted to
\* that user, whatever was emitted to other users.  The foods scored are all
\* candidates of a rank_candidates call and the top item of every bundle of
\* a generate_notifications call (scored before its own entry was appended).
C18_RecencyNoveltyAcrossCalls ==
    /\ last.op = "rank" =>
          \A k \in DOMAIN Ranked :
              NoveltyAsClaimed(appended[last.user_id], Ranked[k].food_id, last.now.t,
                               Ranked[k].scores.RecencyNovelty)
    /\ (last.op = "generate" /\ LastUserLoaded /\ last.ret.kind = "list") =>
          \A k \in DOMAIN last.ret.val :
              LET history == appended[last.user_id]
                  before == SubSeq(history, 1, Len(history) - Len(last.ret.val) + k - 1)
                  item == last.ret.val[k].items[1]
              IN  NoveltyAsClaimed(before, item.food_id, last.now.t,
                                   item.scores_breakdown.RecencyNovelty)

\* the items the service has computed for its requests, each with the
\* identifier of the user it was composed for
ServedItems ==
    UNION {{[user_id |-> tasks[r].user_id, item |-> tasks[r].ret.val[k].items[1]] :
               k \in DOMAIN tasks[r].ret.val} :
           r \in {q \in RequestIds : tasks[q].pc \in {"respond", "done"}
                                     /\ tasks[q].user_id \in UserIds
                                     /\ tasks[q].ret.kind = "list"}}

\* the link rows of a condition whose nutrient the food holds with a
\* positive amount
Contributing(food, condition) ==
    SelectSeq(LinkRows(condition), LAMBDA row : Amount(food, row.nutrient) > 0)

\* sum of link weight x food amount over the contributing rows
ConditionSum(food, condition) ==
    LET rows == Contributing(food, condition)
    IN  SumSeq([k \in DOMAIN rows |-> rows[k].weight * Amount(food, rows[k].nutrient)])

\* the first condition of the profile, in profile order, that no condition
\* of the profile beats
HighestSumIndex(food, user) ==
    CHOOSE i \in DOMAIN user.conditions :
        /\ \A j \in DOMAIN user.conditions :
              ConditionSum(food, user.conditions[j]) <= ConditionSum(food, user.conditions[i])
        /\ \A j \in 1..(i - 1) :
              ConditionSum(food, user.conditions[j]) < ConditionSum(food, user.conditions[i])

\* C19: the condition of every composed item is the condition of the user's
\* profile with the highest sum of link weight x food amount over its linked
\* nutrients of positive amount in the food, the first in profile order on a
\* tie; key_nutrients are the nutrients that contributed to that sum; for a
\* user with a single condition every item carries that condition.
C19_PrimaryCondition ==
    \A served \in ServedItems :
        LET user == Users[served.user_id]
            food == FoodById(served.item.food_id)
            primary == user.conditions[HighestSumIndex(food, user)]
            rows == Contributing(food, primary)
        IN  /\ user.conditions # <<>>
            /\ served.item.condition = primary
            /\ served.item.key_nutrients = [k \in DOMAIN rows |-> rows[k].nutrient]
            /\ Len(user.conditions) = 1 => served.item.condition = user.conditions[1]

\* the key the claim maps a trigger to
ClaimedFactKey(trigger) ==
    IF trigger = <<"pre_", "breakfast">> THEN "morning_boost"
    ELSE IF trigger = <<"pre_", "lunch">> \/ trigger = <<"pre_", "dinner">> THEN "pre_meal"
    ELSE IF trigger = <<"post_activity">> THEN "post_activity"
    ELSE IF trigger = <<"social_viral">> THEN "omega3_benefits"
    ELSE IF trigger[1] = "condition_" THEN "evening_repair"
    ELSE "pre_meal"

\* the text stored under that key, or the generic sentence
ClaimedFact(trigger, facts) ==
    IF ClaimedFactKey(trigger) \in DOMAIN facts
    THEN facts[ClaimedFactKey(trigger)] ELSE GenericFact

\* C20: in every returned bundle, reasons.why_now is the text the fact table
\* stores under the key mapped from the bundle's trigger (the generic
\* sentence when the table lacks the key), and the message is the template
\* filled with that text.
C20_FactSelection ==
    (last.op = "generate" /\ LastUserLoaded /\ last.ret.kind = "list") =>
        \A k \in DOMAIN last.ret.val :
            LET bundle == last.ret.val[k]
                item == bundle.items[1]
                fact == ClaimedFact(bundle.trigger, Facts)
            IN  /\ item.why_now = fact
                /\ item.message =
                      _fill_template(MessageTemplates[item.template_id],
                                     FoodById(item.food_id),
                                     _generate_benefit_text(item.key_nutrients, item.condition),
                                     item.condition, fact)

\* the entries a step appended to the history of the user of the call
AddedBy(u) == SubSeq(appended'[u], Len(appended[u]) + 1, Len(appended'[u]))

\* the bundles a call handed back to its caller: none when it raised
BundlesReturned(ret) == IF ret.kind = "list" THEN ret.val ELSE <<>>

\* C21: in every generate_notifications call the entries appended to the
\* recency list of the user are as many as the bundles returned; the k-th
\* appended entry carries the food id of the single item of the k-th bundle
\* and the timestamp of the call; a call that returns the empty list leaves
\* every recency list unchanged.
C21_OneRecordPerBundle ==
    [][GenerateStepLoaded =>
        LET added == AddedBy(last'.user_id)
            bundles == BundlesReturned(last'.ret)
        IN  /\ Len(added) = Len(bundles)
            /\ \A k \in DOMAIN bundles :
                  /\ Len(bundles[k].items) = 1
                  /\ k \in DOMAIN added
                  /\ added[k].food_id = bundles[k].items[1].food_id
                  /\ added[k].timestamp = IsoFormat(last'.now)
            /\ last'.ret = ReturnList(<<>>) =>
                  recent_notifications' = recent_notifications]_vars

\* the recency list of the user as the k-th bundle of the returned list
\* found it: the kept entries of the history before the entry of that bundle
RecencyBefore(k) ==
    LET history == appended[last.user_id]
    IN  LastN(SubSeq(history, 1, Len(history) - Len(last.ret.val) + k - 1), MaxRecent)

\* total score of a food for the user of the call against a recency list
TotalFor(food, user_recent) ==
    TotalScore(_calculate_scores(food, Users[last.user_id], user_recent, last.now.t))

\* C22: the bundles of a returned list are in the order of the resolved
\* triggers; the triggers without an eligible candidate have no bundle and
\* the others have one each; every bundle has exactly one item, a candidate
\* of maximal total score for its trigger and the earliest such candidate in
\* catalog order.
C22_PipelineOrder ==
    (last.op = "generate" /\ LastUserLoaded /\ last.resolved /\ last.ret.kind = "list") =>
        LET user == Users[last.user_id]
            bundles == last.ret.val
            served == SelectSeq(last.triggers, LAMBDA trigger :
                          generate_candidates(user, last.now.t, trigger) # <<>>)
        IN  /\ [k \in DOMAIN bundles |-> bundles[k].trigger] = served
            /\ \A k \in DOMAIN bundles :
                  LET candidates == generate_candidates(user, last.now.t, bundles[k].trigger)
                      before == RecencyBefore(k)
                      totals == [i \in DOMAIN candidates |-> TotalFor(candidates[i], before)]
                  IN  /\ Len(bundles[k].items) = 1
                      /\ \E i \in DOMAIN candidates :
                            /\ candidates[i].food_id = bundles[k].items[1].food_id
                            /\ \A j \in DOMAIN candidates : totals[j] <= totals[i]
                            /\ \A j \in 1..(i - 1) : totals[j] < totals[i]
                            /\ bundles[k].items[1].score = Round3(totals[i])

\* a call returned several bundles, each chosen among several candidates,
\* and the item of one of them is not the first candidate of the catalog
C22_Witness ==
    /\ last.op = "generate" /\ LastUserLoaded /\ last.ret.kind = "list"
    /\ Len(last.ret.val) >= 2
    /\ Len(last.triggers) = Len(last.ret.val)
    /\ LET candidates == generate_candidates(Users[last.user_id], last.now.t,
                                             last.triggers[1])
       IN  /\ Len(candidates) >= 2
           /\ \E k \in DOMAIN last.ret.val :
                 last.ret.val[k].items[1].food_id # candidates[1].food_id

\* C23: within one generate_notifications call the item of every trigger
\* (food, scores, message) is the one the trigger gets when it is ranked
\* against the recency list as it was when the call started, whichever other
\* triggers fired in the call.
C23_TriggerIndependence ==
    (last.op = "generate" /\ LastUserLoaded /\ last.ret.kind = "list") =>
        \A k \in DOMAIN last.ret.val :
            LET user == Users[last.user_id]
                trigger == last.ret.val[k].trigger
                candidates == generate_candidates(user, last.now.t, trigger)
                ranked == rank_candidates(candidates, user, RecencyBefore(1), last.now.t)
            IN  last.ret.val[k].items[1] = ComposeItem(ranked[1], user, trigger)

\* some nutrient key of the food is linked to some condition of the user
LinkedToUser(user, food) ==
    \E row \in Range(ConditionNutrients) :
        /\ row.condition \in Range(user.conditions)
        /\ row.nutrient \in DOMAIN food.nutrients

\* the food passes the three constraints of the candidate filter
Eligible(user, food) ==
    /\ DietAllows(user, food)
    /\ ~SharesAllergen(user, food)
    /\ LinkedToUser(user, food)

\* C24: generate_candidates returns exactly the catalog foods that are
\* diet-compatible with the user, share no tag or ingredient with the
\* user's allergies and hold a nutrient key linked to a condition of the
\* user, in catalog order, whatever the trigger and the timestamp; it
\* returns the empty list for a user without conditions.
C24_CandidateFilter ==
    (last.op = "candidates" /\ LastUserLoaded) =>
        LET user == Users[last.user_id]
            eligible == SelectSeq(FoodList, LAMBDA food : Eligible(user, food))
        IN  /\ last.ret.kind = "list"
            /\ last.ret.val = [i \in DOMAIN eligible |-> eligible[i].food_id]
            /\ user.conditions = <<>> => last.ret.val = <<>>

\* generate_candidates was called with the post-workout trigger and the
\* later timestamp and returned several foods, one of them without protein,
\* while the catalog holds a food that only the relevance test keeps out
C24_Witness ==
    /\ last.op = "candidates" /\ LastUserLoaded
    /\ last.triggers = << <<"post_activity">> >>
    /\ last.now \notin CandidateNows
    /\ Len(last.ret.val) >= 2
    /\ \E i \in DOMAIN last.ret.val :
          "protein" \notin DOMAIN FoodById(last.ret.val[i]).nutrients
    /\ \E food \in Range(FoodList) :
          /\ DietAllows(Users[last.user_id], food)
          /\ ~SharesAllergen(Users[last.user_id], food)
          /\ ~LinkedToUser(Users[last.user_id], food)

\* C25: a call that resolves triggers leaves the activity log, its timestamp
\* column included, as it was; it does not raise, and resolve_triggers
\* returns the triggers of its user and instant under one of the two
\* outcomes of the draw, at every call of a sequence.
C25_LogReadOnly ==
    [][(last'.op \in {"generate", "resolve"} /\ last'.user_id \in UserIds /\ last'.resolved) =>
        /\ activity_ts_tz' = activity_ts_tz
        /\ last'.ret.exc # "TypeError"
        /\ last'.op = "resolve" =>
              \E draw \in BOOLEAN :
                  last'.ret = ReturnList(resolve_triggers(Users[last'.user_id],
                                                          last'.now.t, draw))]_vars

\* what generate_notifications hands back for a user without recorded
\* notifications on an agent that has served nobody, for either draw
FreshResults(user_id, now) ==
    {LET out == TriggerLoop(Users[user_id], now,
                            resolve_triggers(Users[user_id], now.t, draw), 1,
                            [user_recent |-> <<>>, added |-> <<>>, bundles |-> <<>>,
                             exc |-> ""])
     IN  IF out.exc # "" THEN Raise(out.exc) ELSE ReturnList(out.bundles) :
     draw \in DrawsFor(user_id, now)}

\* the call before the step was the first of the agent to resolve triggers,
\* and it was made for a user other than u: no call has been made for u
OnlyOthersServed(u) ==
    /\ last.op \in {"generate", "resolve"}
    /\ last.user_id \in UserIds \ {u}
    /\ last.resolved
    /\ last.ret.exc # "TypeError"
    /\ u \notin DOMAIN recent_notifications

\* C26: a generate_notifications call for a user U changes the recency list
\* of no other user, and its result does not depend on the calls made for
\* other users: a call for U on an agent that has only served another user
\* V returns what it returns on an agent that has served nobody.
C26_CrossUserIndependence ==
    [][GenerateStepLoaded =>
        /\ \A v \in UserIds \ {last'.user_id} :
              /\ RecentOf(recent_notifications', v) = RecentOf(recent_notifications, v)
              /\ appended'[v] = appended[v]
        /\ OnlyOthersServed(last'.user_id) =>
              last'.ret \in FreshResults(last'.user_id, last'.now)]_vars

\* the link rows of the conditions of the profile of the last condition match
ProfileRows ==
    {row \in Range(ConditionNutrients) : row.condition \in Range(last.conditions)}

\* C27: CondMatch is exactly 0 when no condition of the user has a link row,
\* when the food has amount 0 or no entry for every nutrient linked to the
\* conditions of the user, and when all those link weights are 0; the
\* computation divides by zero in none of these cases.
C27_CondMatchDegenerate ==
    last.op = "condition_match" =>
        /\ last.ret.kind = "list"
        /\ (\/ ProfileRows = {}
            \/ \A row \in ProfileRows : Amount(FoodById(last.food_id), row.nutrient) = 0
            \/ \A row \in ProfileRows : row.weight = 0)
              => last.ret.val = <<0>>

\* the score 0 was computed for a profile with link rows of positive weight
\* and a food that lists a linked nutrient, with amount 0, and lacks others
C27_Witness ==
    /\ last.op = "condition_match"
    /\ last.ret.val = <<0>>
    /\ \E row \in ProfileRows : row.weight > 0
    /\ \E row \in ProfileRows : row.nutrient \in DOMAIN FoodById(last.food_id).nutrients
    /\ \E row \in ProfileRows : row.nutrient \notin DOMAIN FoodById(last.food_id).nutrients

\* two neighbouring entries of a recency list are in order and spaced: they
\* carry the same timestamp, or the later one is at least three hours later
Spaced(list) ==
    \A i \in 1..(Len(list) - 1) :
        \/ list[i].timestamp = list[i + 1].timestamp
        \/ EntryInstant(list[i + 1]) - EntryInstant(list[i]) >= MinGapSecs

\* C28: recorded timestamps are ordered and spaced.  After any sequence of
\* calls, with timestamps in any order, every user's recency list and the
\* history of the user's appends are non-decreasing in append order, two
\* neighbouring entries carry the same timestamp or lie at least three hours
\* apart, and the last entry is the most recent one; and whatever datetime
\* the next call carries, if it passes the rate limits, the entry it records
\* keeps the list so.
C28_OrderedAndSpaced ==
    \A u \in UserIds :
        LET list == RecentOf(recent_notifications, u)
        IN  /\ Spaced(appended[u])
            /\ Spaced(list)
            /\ list # <<>> => EntryInstant(list[Len(list)]) = MostRecent(list)
            /\ \A now \in NowValues :
                  _check_rate_limits(list, now)
                  => Spaced(_update_recent_notifications(list, "f001", now))

\* a user holds two entries, and a call carrying an earlier datetime than
\* the last entry has just been turned away without recording anything
C28_Witness ==
    /\ last.op = "generate"
    /\ last.user_id \in UserIds
    /\ Len(RecentOf(recent_notifications, last.user_id)) >= 2
    /\ last.now.t < MostRecent(RecentOf(recent_notifications, last.user_id))
    /\ last.ret = ReturnList(<<>>)
    /\ ~last.rate_ok

\* the calendar day, in the zone of the user, that instant t falls on
LocalDay(user_id, t) == (t + TzOffset[Users[user_id].tz]) \div DAY

\* C29: the rate limits never block a user for good.  Whatever the recency
\* list of the user holds, every call a full day or more after its most
\* recent entry passes the rate limits; and in particular a call at least
\* three hours after the last entry, on a calendar day of the user later
\* than the day of every entry, passes them.
C29_NeverBlockedForGood ==
    [][GenerateStepLoaded =>
        LET u == last'.user_id
            list == RecentOf(recent_notifications, u)
            now == last'.now
        IN  list # <<>> =>
              /\ now.t >= MostRecent(list) + DAY => last'.rate_ok
              /\ (/\ now.t - EntryInstant(list[Len(list)]) >= MinGapSecs
                  /\ \A i \in DOMAIN list :
                        LocalDay(u, EntryInstant(list[i])) < LocalDay(u, now.t))
                 => last'.rate_ok]_vars

(***************************************************************************)
(* The offline evaluator (NutritionAgentEvaluator).  It holds a reference  *)
(* to the agent it is given (line 662) and replays generate_notifications  *)
(* on that agent over a grid of days, hours and users.                     *)
(***************************************************************************)
EvalDays == 7

EvalHours == <<8, 13, 18, 20>>

TestUserLimit == 10

\* the keys of self.agent.users, in the order users.json lists them
UserOrder == <<"u001", "u002", "u003", "u004", "u005", "u006">>

\* list(self.agent.users.keys())[:10]
test_users ==
    SubSeq(UserOrder, 1, IF Len(UserOrder) < TestUserLimit THEN Len(UserOrder)
                         ELSE TestUserLimit)

\* (base_time + timedelta(days=day)).replace(hour=hour): the minutes and
\* seconds of base_time are kept
test_time(base_time, day, hour) ==
    [t |-> ((base_time.t \div DAY) + day) * DAY + hour * HOUR + (base_time.t % HOUR),
     off |-> base_time.off]

\* _has_safety_violation, summed over the items of the bundles of one call
SafetyViolations(user, bundles) ==
    Cardinality({i \in DOMAIN bundles :
        LET food == FoodById(bundles[i].items[1].food_id)
        IN  ~_check_diet_compatibility(user, food) \/ _has_allergy_risk(user, food)})

\* line 685: self.agent.generate_notifications(user_id, test_time) on the
\* agent as the calls before it left it; acc holds the recency lists and the
\* zone of the log's 'ts' column of the agent, the entries added, and the
\* counters of the evaluator; an exception ends the evaluation
EvalCall(acc, user_id, now, draw) ==
    IF acc.exc # "" THEN acc
    ELSE IF ~_check_rate_limits(RecentOf(acc.recent, user_id), now)
         THEN [acc EXCEPT !.total = @ + 1]
    ELSE IF acc.tz # "naive"
         THEN [acc EXCEPT !.total = @ + 1, !.exc = "TypeError"]
    ELSE With(resolve_triggers(Users[user_id], now.t, draw), LAMBDA triggers :
         With(TriggerLoop(Users[user_id], now, triggers, 1,
                          [user_recent |-> RecentOf(acc.recent, user_id),
                           added |-> <<>>, bundles |-> <<>>, exc |-> ""]), LAMBDA out :
              [recent |-> IF out.added = <<>> THEN acc.recent
                          ELSE (user_id :> out.user_recent) @@ acc.recent,
               tz |-> "UTC",
               added |-> [acc.added EXCEPT ![user_id] = @ \o out.added],
               exc |-> out.exc,
               total |-> acc.total + 1,
               eligible |-> IF out.exc = "" /\ out.bundles # <<>>
                            THEN acc.eligible + 1 ELSE acc.eligible,
               notifications |-> IF out.exc = "" THEN acc.notifications + Len(out.bundles)
                                 ELSE acc.notifications,
               violations |-> IF out.exc = ""
                              THEN acc.violations
                                   + SafetyViolations(Users[user_id], out.bundles)
                              ELSE acc.violations]))

\* the k-th pass of the loops of lines 676-695: days outermost, then the
\* hours, then the users
EvalStep(base_time, draw, k, acc) ==
    LET n == Len(test_users)
        day == (k - 1) \div (Len(EvalHours) * n)
        hour == EvalHours[(((k - 1) \div n) % Len(EvalHours)) + 1]
        user_id == test_users[((k - 1) % n) + 1]
    IN  EvalCall(acc, user_id, test_time(base_time, day, hour), draw)

\* the agent and the counters after the loops of run_offline_evaluation
EvalLoop(base_time, draw, acc) ==
    FoldRange(LAMBDA k, a : EvalStep(base_time, draw, k, a), acc, 1,
              EvalDays * Len(EvalHours) * Len(test_users))

\* evaluator.run_offline_evaluation() on the agent, as the demo and the
\* handler of POST /evaluate call it; base_time is datetime.now(pytz.UTC)
\* and draw is random.random() < 0.1 in the one resolution that can draw;
\* the metrics returned are the counters the ratios are taken from
RunOfflineEvaluation(base_time, draw) ==
    \E out \in {EvalLoop(base_time, draw,
                   [recent |-> recent_notifications, tz |-> activity_ts_tz,
                    added |-> [u \in UserIds |-> <<>>], exc |-> "",
                    total |-> 0, eligible |-> 0, notifications |-> 0,
                    violations |-> 0])} :
        /\ recent_notifications' = out.recent
        /\ activity_ts_tz' = out.tz
        /\ appended' = [u \in UserIds |-> appended[u] \o out.added[u]]
        /\ last' = [op |-> "evaluate", user_id |-> "", now |-> base_time,
                    rate_ok |-> FALSE, resolved |-> out.tz # activity_ts_tz,
                    drew |-> FALSE, triggers |-> <<>>,
                    ret |-> IF out.exc # "" THEN Raise(out.exc)
                            ELSE ReturnList(<<[total |-> out.total,
                                               eligible |-> out.eligible,
                                               total_notifications |-> out.notifications,
                                               safety_violations |-> out.violations]>>)]
        /\ UNCHANGED <<message_templates, tasks, running>>

\* the instants at which an evaluation is started: 09:30 UTC of day 1, and
\* 09:30 UTC of day 9, more than a week after the last row of the log
BaseTimes == {[t |-> DAY + 34200, off |-> 0], [t |-> 9 * DAY + 34200, off |-> 0]}

\* the users for whom notifications are generated around an evaluation
EvalCallers == {"u001", "u002", "u003"}

EvalNext ==
    \/ \E user_id \in EvalCallers, now \in NowValues :
          \E draw \in DrawsFor(user_id, now) : GenerateNotifications(user_id, now, draw)
    \/ \E base_time \in BaseTimes, draw \in BOOLEAN :
          RunOfflineEvaluation(base_time, draw)

EvalSpec == Init /\ [][EvalNext]_vars

\* the outcome of generate_notifications(user_id, now) on an agent with the
\* given recency lists and zone of the log's 'ts' column
OutcomeOn(recent, tz, user_id, now) ==
    With(EvalCall([recent |-> recent, tz |-> tz, added |-> [u \in UserIds |-> <<>>],
                   exc |-> "", total |-> 0, eligible |-> 0, notifications |-> 0,
                   violations |-> 0], user_id, now, FALSE),
         LAMBDA out : [exc |-> out.exc, added |-> out.added[user_id]])

\* C30: an offline evaluation leaves no trace in the recency state.  When
\* run_offline_evaluation ends, the recency list of every user is what it
\* was before the evaluation, and a call of generate_notifications made
\* afterwards ends as it would have ended without the evaluation.
C30_EvaluationLeavesNoTrace ==
    [][last'.op = "evaluate" =>
        /\ \A u \in UserIds :
              RecentOf(recent_notifications', u) = RecentOf(recent_notifications, u)
        /\ \A u \in EvalCallers, now \in RequestNows :
              OutcomeOn(recent_notifications', activity_ts_tz', u, now)
              = OutcomeOn(recent_notifications, activity_ts_tz, u, now)]_vars
====
